---- MODULE Spec2Model ----
(***************************************************************************)
(* Model of the structured-data codec layer of the QR generator: the WiFi  *)
(* payload builder, the map-URL parser and geo URI builder, the IBAN       *)
(* checksum, the payment payload builder and its decoder, and the phone    *)
(* normaliser.                                                              *)
(*                                                                         *)
(* A JavaScript string is modelled as a sequence of one-character strings, *)
(* so that escaping, regular-expression matching and percent-encoding are  *)
(* computed character by character as the code computes them.              *)
(***************************************************************************)
EXTENDS Integers, Sequences, FiniteSets, TLC

VARIABLES
    pc,              \* position of the tool under study: "ready" before the call, "done" after
    str,             \* escapeWiFiString: the argument
    escaped,         \* escapeWiFiString: the returned string
    wifiData,        \* generateWiFiQR: the submitted { ssid, password, security, hidden }
    wifiResult,      \* generateWiFiQR: the returned result object
    wifiForm,          \* what the form validator's getFormData returned
    wifiFields,        \* the values of the three fields of the WiFi form
    canvas,          \* LocationQRGenerator.canvas is set (init() has found the element)
    mapsUrl,         \* generateLocationQR: locationData.mapsUrl
    parseResult,     \* generateLocationQR: what parseGoogleMapsUrl returned
    locationResult,  \* generateLocationQR: the returned result object
    ibanCode,        \* validateIBANData: data.ibanCode as typed
    ibanResult,      \* validateIBANData: the error pushed for the code, and the checksum remainder
    paymentData,         \* handleFormSubmit: the entries of the payment form
    currentQRCode,       \* the QR code the payment page holds, with its payment string
    currentPaymentData,  \* the payment data the QR code was generated for
    paymentError,        \* the messages showError displayed
    paymentInfo,         \* the result of extractPaymentInfo
    phone,           \* formatPhoneNumber: the raw phone string
    cleanPhone,      \* formatPhoneNumber: the normalized number
    reformatted,     \* formatPhoneNumber applied to the normalized number
    smsData,         \* generateSMSQR: platform, phone and message
    smsResult,       \* generateSMSQR: the returned result object
    phoneData,       \* generatePhoneQR: platform, phone and display name
    phoneResult,     \* generatePhoneQR: the returned result object
    eventData,         \* the event entered in the form
    eventCanvas,       \* TRUE once init() has found the canvas
    timeZone,          \* hours the local zone is ahead of UTC
    clock,             \* the system clock at the latest call
    eventValidation,   \* what validateEventData returned
    eventResult,       \* what generateEventQR resolved to
    issued,            \* the results of the calls of generateEventQR so far
    icalText,          \* argument of escapeICalText
    icalEscaped,       \* its result
    emailFields,       \* the values of the three fields of the email form
    currentEmailData,  \* the email data the page keeps
    emailResult,       \* the outcome of generateEmailQR and the URL it rendered
    textInput,          \* the value of the text area
    textFormatted,      \* what formatText returned
    textForQR,          \* what formatTextForQR returned
    textValidation,     \* what validateAndFormat returned
    currentText,        \* the text page's currentText
    toDataURL,          \* the strings handed to QRCode.toDataURL
    textResult,         \* outcome of the text page's submit
    emailArg,           \* the argument of a direct validateEmailData call
    paymentArg,         \* the argument of a direct validatePaymentData call
    stringArg,          \* the argument of a direct extractPaymentInfo call
    outcome,            \* how the direct call ended
    vcardFields,        \* the values of the twelve fields of the contact form
    vcardData,          \* the contact page's currentData.vcardData
    vcardResult,        \* what generateVCardQR resolved to
    vcardString,        \* what generateVCardString returned
    request,            \* shortener: method and body url of each POST /api/shorten
    rpc,                \* shortener: where each request's handler stands
    shortCode,          \* shortener: the handler's shortCode
    attempts,           \* shortener: the handler's attempts
    response,           \* shortener: the response sent for each request
    kv,                 \* the key-value store: value under each key, null when absent
    ttl,                \* the expiration set for each key, 0 when none
    visit,              \* the response to the latest visit of a short URL
    page,               \* controller: the page that runs ("wifi", "event" or "email")
    currentData,        \* controller: the page's currentData
    sections,           \* controller: loading, results and error section, generate button
    awaited,            \* controller: the generator call handleFormSubmit awaits
    pdf,                \* controller: what the latest PDF download was made of
    submits             \* controller: submit events so far

wifiVars == <<str, escaped, wifiData, wifiResult, wifiForm, wifiFields>>
geoVars == <<canvas, mapsUrl, parseResult, locationResult>>
ibanVars == <<ibanCode, ibanResult>>
paymentVars == <<paymentData, currentQRCode, currentPaymentData, paymentError, paymentInfo>>
phoneVars == <<phone, cleanPhone, reformatted>>
messagingVars == <<smsData, smsResult, phoneData, phoneResult>>
eventVars == <<eventData, eventCanvas, timeZone, clock, eventValidation, eventResult, issued,
              icalText, icalEscaped>>
emailVars == <<emailFields, currentEmailData, emailResult>>
textVars == <<textInput, textFormatted, textForQR, textValidation, currentText, toDataURL, textResult>>
boundaryVars == <<emailArg, paymentArg, stringArg, outcome>>
vcardVars == <<vcardFields, vcardData, vcardResult, vcardString>>
shortenerVars == <<request, rpc, shortCode, attempts, response, kv, ttl, visit>>
controllerVars == <<page, currentData, sections, awaited, pdf, submits>>
vars == <<pc, wifiVars, geoVars, ibanVars, paymentVars, phoneVars, messagingVars, eventVars, emailVars, textVars, boundaryVars, vcardVars, shortenerVars, controllerVars>>

\* Value held by the variables of the tools a specification does not exercise.
Unused == <<>>

----------------------------------------------------------------------------
(* Bounds of the model *)

MaxEscLen == 4       \* longest argument given to the escaper
MaxSsidLen == 2      \* longest enumerated SSID
MaxPwdTail == 1      \* longest enumerated tail appended to a password stem
MaxSegments == 2     \* most coordinate-bearing segments in a map URL
MaxIbanTail == 7     \* most characters after the 15 an IBAN must have
MaxNameLen == 3      \* longest enumerated payee or account holder name
MaxPhoneLen == 4     \* longest phone string enumerated character by character
MaxPhoneDigits == 16 \* most digits of the long number in a phone input
MaxCalls == 2        \* most calls of the event generator in one run
MaxElapsed == 1      \* most milliseconds between two calls of the event generator
MaxTextLen == 4      \* longest text given to the iCalendar escaper
MaxTextChars == 4    \* longest run of characters between two letters of a text area value
MaxRequests == 2     \* concurrent requests to the shorten endpoint
MaxSubmits == 3      \* submit events on a page in one run

----------------------------------------------------------------------------
(* JavaScript string built-ins *)

\* All strings over chars of length at most n.
Strings(chars, n) == UNION {[1..k -> chars] : k \in 0..n}

WhiteSpace == {" ", "\t", "\n", "\r"}
Digit == {"0", "1", "2", "3", "4", "5", "6", "7", "8", "9"}
HexLetter == {"a", "b", "c", "d", "e", "f", "A", "B", "C", "D", "E", "F"}

\* String.prototype.replace(/c/g, r) for a one-character pattern c.
RECURSIVE ReplaceChar(_, _, _)
ReplaceChar(s, c, r) ==
    IF s = <<>> THEN <<>>
    ELSE (IF Head(s) = c THEN r ELSE <<Head(s)>>) \o ReplaceChar(Tail(s), c, r)

\* String.prototype.trim().
RECURSIVE TrimStart(_)
TrimStart(s) ==
    IF s # <<>> /\ Head(s) \in WhiteSpace THEN TrimStart(Tail(s)) ELSE s

RECURSIVE TrimEnd(_)
TrimEnd(s) ==
    IF s # <<>> /\ s[Len(s)] \in WhiteSpace THEN TrimEnd(SubSeq(s, 1, Len(s) - 1)) ELSE s

Trim(s) == TrimEnd(TrimStart(s))

\* String.prototype.startsWith(p).
StartsWith(s, p) == Len(s) >= Len(p) /\ SubSeq(s, 1, Len(p)) = p

\* p occurs in s at index i (1-based).
OccursAt(s, p, i) ==
    /\ i + Len(p) - 1 <= Len(s)
    /\ \A k \in 1..Len(p) : s[i + k - 1] = p[k]

\* String.prototype.includes(p).
Includes(s, p) == \E i \in 1..(Len(s) + 1) : OccursAt(s, p, i)

\* /^[0-9A-Fa-f]+$/.test(s)
IsHexString(s) == s # <<>> /\ \A i \in 1..Len(s) : s[i] \in Digit \cup HexLetter

----------------------------------------------------------------------------
(* WiFi: src/src/scripts/components/wifi-qr-generator.js *)

EscapeBackslashLast(s) ==
    IF s = <<>> THEN <<>>
    ELSE ReplaceChar(
           ReplaceChar(
             ReplaceChar(
               ReplaceChar(s, ";", <<"\\", ";">>),
               ",", <<"\\", ",">>),
             "\"", <<"\\", "\"">>),
           "\\", <<"\\", "\\">>)

\* escapeWiFiString: four global replaces, backslash first.
escapeWiFiString(s) ==
    IF s = <<>> THEN <<>>
    ELSE ReplaceChar(
           ReplaceChar(
             ReplaceChar(
               ReplaceChar(s, "\\", <<"\\", "\\">>),
               ";", <<"\\", ";">>),
             ",", <<"\\", ",">>),
           "\"", <<"\\", "\"">>)

validSecurityTypes == {"WPA", "WPA3", "WEP", "nopass"}

\* securityMap[security] || 'WPA', as the characters of the mapped name.
securityMap(security) ==
    CASE security = "WPA" -> <<"W", "P", "A">>
      [] security = "WPA3" -> <<"W", "P", "A">>
      [] security = "WEP" -> <<"W", "E", "P">>
      [] security = "nopass" -> <<"n", "o", "p", "a", "s", "s">>
      [] OTHER -> <<"W", "P", "A">>

FormatKeepsWPA3(d) ==
    LET escapedSSID == escapeWiFiString(d.ssid)
        escapedPassword == IF d.password # <<>> THEN escapeWiFiString(d.password) ELSE <<>>
        securityType == IF d.security = "WPA3" THEN <<"W", "P", "A", "3">>
                        ELSE securityMap(d.security)
        hiddenFlag == IF d.hidden THEN <<"t", "r", "u", "e">> ELSE <<"f", "a", "l", "s", "e">>
    IN  <<"W", "I", "F", "I", ":", "T", ":">> \o securityType \o <<";", "S", ":">>
          \o escapedSSID \o <<";">>
          \o (IF securityType # <<"n", "o", "p", "a", "s", "s">> /\ escapedPassword # <<>>
              THEN <<"P", ":">> \o escapedPassword \o <<";">> ELSE <<>>)
          \o <<"H", ":">> \o hiddenFlag \o <<";", ";">>

\* formatWiFiString
formatWiFiString(d) ==
    LET escapedSSID == escapeWiFiString(d.ssid)
        escapedPassword == IF d.password # <<>> THEN escapeWiFiString(d.password) ELSE <<>>
        securityType == securityMap(d.security)
        hiddenFlag == IF d.hidden THEN <<"t", "r", "u", "e">> ELSE <<"f", "a", "l", "s", "e">>
    IN  <<"W", "I", "F", "I", ":", "T", ":">> \o securityType \o <<";", "S", ":">>
          \o escapedSSID \o <<";">>
          \o (IF securityType # <<"n", "o", "p", "a", "s", "s">> /\ escapedPassword # <<>>
              THEN <<"P", ":">> \o escapedPassword \o <<";">> ELSE <<>>)
          \o <<"H", ":">> \o hiddenFlag \o <<";", ";">>

\* validateWiFiData: the error message, or "" when the data is valid.
validateWiFiData(d) ==
    LET ssid == d.ssid
        password == d.password
        security == d.security
    IN  IF ssid = <<>> \/ Len(Trim(ssid)) = 0 THEN "Network name (SSID) is required"
        ELSE IF Len(ssid) > 32 THEN "Network name cannot exceed 32 characters"
        ELSE IF security \notin validSecurityTypes THEN "Invalid security type"
        ELSE IF security # "nopass" /\ Len(password) = 0
          THEN "Password is required for secured networks"
        ELSE IF security \in {"WPA", "WPA3"} /\ (Len(password) < 8 \/ Len(password) > 63)
          THEN "WPA password must be 8-63 characters long"
        ELSE IF security = "WEP"
                /\ ~(Len(password) = 5 \/ Len(password) = 13
                     \/ (Len(password) = 10 /\ IsHexString(password))
                     \/ (Len(password) = 26 /\ IsHexString(password)))
          THEN "WEP password must be 5/13 characters or 10/26 hex digits"
        ELSE ""

NoWiFiResult == [success |-> FALSE, error |-> "", wifiString |-> <<>>]

\* generateWiFiQR: validate, load the QR library if needed, format, render.
\* rendered is the outcome of the external collaborators (the library import
\* and toCanvas); their failure is caught and returned as a failure.
generateWiFiQR ==
    /\ pc = "ready"
    /\ LET error == validateWiFiData(wifiData)
       IN  IF error # ""
           THEN wifiResult' = [success |-> FALSE, error |-> error, wifiString |-> <<>>]
           ELSE \E rendered \in BOOLEAN :
                  wifiResult' =
                    IF rendered
                    THEN [success |-> TRUE, error |-> "",
                          wifiString |-> formatWiFiString(wifiData)]
                    ELSE [success |-> FALSE, error |-> "Failed to generate WiFi QR code",
                          wifiString |-> <<>>]
    /\ pc' = "done"
    /\ UNCHANGED <<str, escaped, wifiData, wifiForm, wifiFields>>

\* A call of escapeWiFiString on its own.
EscapeCall ==
    /\ pc = "ready"
    /\ escaped' = escapeWiFiString(str)
    /\ pc' = "done"
    /\ UNCHANGED <<str, wifiData, wifiResult, wifiForm, wifiFields>>

EscChars == {"a", "\\", ";", ",", "\""}
SsidChars == {"a", "\\", ";", ",", "\"", " "}
PwdChars == {"a", "\\", ";"}

Home == <<"H", "o", "m", "e">>
password123 == <<"p", "a", "s", "s", "w", "o", "r", "d", "1", "2", "3">>

\* Password stems of 0, 4, 8 and 9 characters: with a tail they reach the
\* WEP lengths 5 and 10 and the WPA minimum 8.
PwdStems == {<<>>, <<"p", "a", "s", "s">>, <<"p", "a", "s", "s", "w", "o", "r", "d">>,
             <<"0", "1", "2", "3", "a", "b", "c", "d", "e">>}

SsidInputs == Strings(SsidChars, MaxSsidLen) \cup {Home}
PasswordInputs ==
    {stem \o tail : stem \in PwdStems, tail \in Strings(PwdChars, MaxPwdTail)}
      \cup {password123}

----------------------------------------------------------------------------
(* Numbers: parseFloat and toFixed on decimal strings.                     *)
(* A parsed number is kept as its exact decimal value [neg, int, frac]     *)
(* (frac: the fraction digits without trailing zeros), or NaN.  The inputs *)
(* of the model have few digits, so the double the engine computes is the  *)
(* nearest one to this decimal and compares with 0, 90, 180 and the amount *)
(* caps as the decimal does.  Exponents ("1e3") and "Infinity" are outside *)
(* the alphabet of the inputs.                                             *)

DigitChars == <<"0", "1", "2", "3", "4", "5", "6", "7", "8", "9">>

DigitVal(c) == CHOOSE n \in 0..9 : DigitChars[n + 1] = c

MinOf(S) == CHOOSE x \in S : \A y \in S : x <= y

\* Index of the last character of the run of digits that starts at i
\* (i - 1 when s[i] is no digit).
RECURSIVE DigitsEnd(_, _)
DigitsEnd(s, i) == IF i <= Len(s) /\ s[i] \in Digit THEN DigitsEnd(s, i + 1) ELSE i - 1

RECURSIVE DigitsToInt(_)
DigitsToInt(ds) ==
    IF ds = <<>> THEN 0
    ELSE 10 * DigitsToInt(SubSeq(ds, 1, Len(ds) - 1)) + DigitVal(ds[Len(ds)])

RECURSIVE IntToDigits(_)
IntToDigits(n) ==
    IF n < 10 THEN <<DigitChars[n + 1]>>
    ELSE IntToDigits(n \div 10) \o <<DigitChars[(n % 10) + 1]>>

RECURSIVE StripTrailingZeros(_)
StripTrailingZeros(ds) ==
    IF ds # <<>> /\ ds[Len(ds)] = "0" THEN StripTrailingZeros(SubSeq(ds, 1, Len(ds) - 1))
    ELSE ds

NaN == [nan |-> TRUE, neg |-> FALSE, int |-> 0, frac |-> <<>>]

\* parseFloat: leading white space, an optional sign, digits with an
\* optional fraction; whatever follows is ignored; NaN when no digit is found.
parseFloat(s) ==
    LET t == TrimStart(s)
        signed == t # <<>> /\ t[1] \in {"+", "-"}
        a == IF signed THEN 2 ELSE 1
        b == DigitsEnd(t, a)
        hasDot == b + 1 <= Len(t) /\ t[b + 1] = "."
        c == IF hasDot THEN DigitsEnd(t, b + 2) ELSE b
        intDigits == SubSeq(t, a, b)
        fracDigits == IF hasDot THEN SubSeq(t, b + 2, c) ELSE <<>>
        frac == StripTrailingZeros(fracDigits)
        int == DigitsToInt(intDigits)
    IN  IF intDigits = <<>> /\ fracDigits = <<>> THEN NaN
        ELSE [nan |-> FALSE,
              neg |-> signed /\ t[1] = "-" /\ (int > 0 \/ frac # <<>>),
              int |-> int, frac |-> frac]

\* x > n and x < -n for a parsed number x and an integer n >= 0;
\* every comparison with NaN is false.
GreaterThan(x, n) == ~x.nan /\ ~x.neg /\ (x.int > n \/ (x.int = n /\ x.frac # <<>>))
LessThanMinus(x, n) == ~x.nan /\ x.neg /\ (x.int > n \/ (x.int = n /\ x.frac # <<>>))

FixedDigits == 6

RECURSIVE Pow10(_)
Pow10(k) == IF k = 0 THEN 1 ELSE 10 * Pow10(k - 1)

\* Number.prototype.toFixed(6): round to 6 fraction digits, pad with zeros.
toFixed(x) ==
    LET padded == x.frac \o [i \in 1..FixedDigits |-> "0"]
        kept == DigitsToInt(SubSeq(padded, 1, FixedDigits))
        up == Len(x.frac) > FixedDigits /\ DigitVal(x.frac[FixedDigits + 1]) >= 5
        scaled == kept + (IF up THEN 1 ELSE 0)
        carry == scaled = Pow10(FixedDigits)
        int == IF carry THEN x.int + 1 ELSE x.int
        frac == IF carry THEN 0 ELSE scaled
    IN  (IF x.neg THEN <<"-">> ELSE <<>>) \o IntToDigits(int) \o <<".">>
          \o Tail(IntToDigits(Pow10(FixedDigits) + frac))

----------------------------------------------------------------------------
(* Location: src/src/scripts/components/location-qr-generator.js *)

\* Index of the last character matched by -?\d+\.?\d* at i, or 0.
NumberEnd(s, i) ==
    LET a == IF i <= Len(s) /\ s[i] = "-" THEN i + 1 ELSE i
        b == DigitsEnd(s, a)
    IN  IF b < a THEN 0
        ELSE IF b + 1 <= Len(s) /\ s[b + 1] = "." THEN DigitsEnd(s, b + 2) ELSE b

\* Index of the last character matched by -?\d{1,3}\.\d{4,} at i, or 0.
PreciseNumberEnd(s, i) ==
    LET a == IF i <= Len(s) /\ s[i] = "-" THEN i + 1 ELSE i
        b == DigitsEnd(s, a)
        c == DigitsEnd(s, b + 2)
    IN  IF b < a \/ b - a + 1 > 3 THEN 0
        ELSE IF ~(b + 1 <= Len(s) /\ s[b + 1] = ".") THEN 0
        ELSE IF c - (b + 1) < 4 THEN 0
        ELSE c

NoMatch == [found |-> FALSE, lat |-> <<>>, lng |-> <<>>]

\* (-?\d+\.?\d*),(-?\d+\.?\d*) at i, followed by a comma when comma is TRUE.
PairAt(s, i, comma) ==
    LET e1 == NumberEnd(s, i)
        e2 == NumberEnd(s, e1 + 2)
    IN  IF e1 = 0 \/ ~(e1 + 1 <= Len(s) /\ s[e1 + 1] = ",") THEN NoMatch
        ELSE IF e2 = 0 THEN NoMatch
        ELSE IF comma /\ ~(e2 + 1 <= Len(s) /\ s[e2 + 1] = ",") THEN NoMatch
        ELSE [found |-> TRUE, lat |-> SubSeq(s, i, e1), lng |-> SubSeq(s, e1 + 2, e2)]

\* String.prototype.match for <prefix>(-?\d+\.?\d*),(-?\d+\.?\d*)[,] where
\* prefix is one of prefixes (all of one length): the leftmost match.
MatchPair(s, prefixes, comma) ==
    LET n == Len(CHOOSE p \in prefixes : TRUE)
        starts == {i \in 1..Len(s) :
                     /\ \E p \in prefixes : OccursAt(s, p, i)
                     /\ PairAt(s, i + n, comma).found}
    IN  IF starts = {} THEN NoMatch ELSE PairAt(s, MinOf(starts) + n, comma)

RECURSIVE SkipWhiteSpace(_, _)
SkipWhiteSpace(s, i) ==
    IF i <= Len(s) /\ s[i] \in WhiteSpace THEN SkipWhiteSpace(s, i + 1) ELSE i

\* (-?\d{1,3}\.\d{4,}),\s*(-?\d{1,3}\.\d{4,}) at i.
PrecisePairAt(s, i) ==
    LET e1 == PreciseNumberEnd(s, i)
        j == SkipWhiteSpace(s, e1 + 2)
        e2 == PreciseNumberEnd(s, j)
    IN  IF e1 = 0 \/ ~(e1 + 1 <= Len(s) /\ s[e1 + 1] = ",") THEN NoMatch
        ELSE IF e2 = 0 THEN NoMatch
        ELSE [found |-> TRUE, lat |-> SubSeq(s, i, e1), lng |-> SubSeq(s, j, e2)]

\* The patterns of parseGoogleMapsUrl, in the order the code lists them.
MatchQ(s) == MatchPair(s, {<<"?", "q", "=">>, <<"&", "q", "=">>}, FALSE)
MatchAt(s) == MatchPair(s, {<<"@">>}, TRUE)
MatchPath(s) == MatchPair(s, {<<"/">>}, FALSE)
MatchLl(s) == MatchPair(s, {<<"?", "l", "l", "=">>, <<"&", "l", "l", "=">>}, FALSE)
MatchCenter(s) ==
    MatchPair(s, {<<"?", "c", "e", "n", "t", "e", "r", "=">>,
                  <<"&", "c", "e", "n", "t", "e", "r", "=">>}, FALSE)
MatchCoordPattern(s) ==
    LET starts == {i \in 1..Len(s) : PrecisePairAt(s, i).found}
    IN  IF starts = {} THEN NoMatch ELSE PrecisePairAt(s, MinOf(starts))

\* cleanUrl.includes('goo.gl/maps') || cleanUrl.includes('maps.app.goo.gl')
IsShortUrl(s) ==
    \/ Includes(s, <<"g", "o", "o", ".", "g", "l", "/", "m", "a", "p", "s">>)
    \/ Includes(s, <<"m", "a", "p", "s", ".", "a", "p", "p", ".", "g", "o", "o", ".", "g", "l">>)

ShortUrlError == "Short URLs need to be expanded"
NoCoordinatesError == "Could not extract coordinates from this URL"

Zero == [nan |-> FALSE, neg |-> FALSE, int |-> 0, frac |-> <<>>]

ParseSuccess(m) ==
    [success |-> TRUE, latitude |-> parseFloat(m.lat), longitude |-> parseFloat(m.lng),
     error |-> ""]
ParseFailure(e) == [success |-> FALSE, latitude |-> Zero, longitude |-> Zero, error |-> e]

\* latitude < -90 || latitude > 90, and the same for longitude with 180
LatitudeOutOfRange(latitude) == LessThanMinus(latitude, 90) \/ GreaterThan(latitude, 90)
LongitudeOutOfRange(longitude) == LessThanMinus(longitude, 180) \/ GreaterThan(longitude, 180)

ParseAtBeforeQ(url) ==
    LET cleanUrl == Trim(url)
        q == MatchQ(cleanUrl)
        at == MatchAt(cleanUrl)
        path == MatchPath(cleanUrl)
        ll == MatchLl(cleanUrl)
        center == MatchCenter(cleanUrl)
        coord == MatchCoordPattern(cleanUrl)
    IN  IF at.found THEN ParseSuccess(at)
        ELSE IF q.found THEN ParseSuccess(q)
        ELSE IF path.found THEN ParseSuccess(path)
        ELSE IF ll.found THEN ParseSuccess(ll)
        ELSE IF center.found THEN ParseSuccess(center)
        ELSE IF IsShortUrl(cleanUrl) THEN ParseFailure(ShortUrlError)
        ELSE IF coord.found /\ ~LatitudeOutOfRange(parseFloat(coord.lat))
                           /\ ~LongitudeOutOfRange(parseFloat(coord.lng))
          THEN ParseSuccess(coord)
        ELSE ParseFailure(NoCoordinatesError)

\* parseGoogleMapsUrl
parseGoogleMapsUrl(url) ==
    LET cleanUrl == Trim(url)
        q == MatchQ(cleanUrl)
        at == MatchAt(cleanUrl)
        path == MatchPath(cleanUrl)
        ll == MatchLl(cleanUrl)
        center == MatchCenter(cleanUrl)
        coord == MatchCoordPattern(cleanUrl)
    IN  IF q.found THEN ParseSuccess(q)
        ELSE IF at.found THEN ParseSuccess(at)
        ELSE IF path.found THEN ParseSuccess(path)
        ELSE IF ll.found THEN ParseSuccess(ll)
        ELSE IF center.found THEN ParseSuccess(center)
        ELSE IF IsShortUrl(cleanUrl) THEN ParseFailure(ShortUrlError)
        ELSE IF coord.found /\ ~LatitudeOutOfRange(parseFloat(coord.lat))
                           /\ ~LongitudeOutOfRange(parseFloat(coord.lng))
          THEN ParseSuccess(coord)
        ELSE ParseFailure(NoCoordinatesError)

ValidateLatitudeOnly(latitude, longitude) ==
    IF latitude.nan \/ longitude.nan THEN "Invalid coordinate values"
    ELSE IF LatitudeOutOfRange(latitude) THEN "Latitude must be between -90 and 90 degrees"
    ELSE ""

\* validateCoordinates: the error message, or "" when the coordinates are valid.
validateCoordinates(latitude, longitude) ==
    IF latitude.nan \/ longitude.nan THEN "Invalid coordinate values"
    ELSE IF LatitudeOutOfRange(latitude) THEN "Latitude must be between -90 and 90 degrees"
    ELSE IF LongitudeOutOfRange(longitude)
      THEN "Longitude must be between -180 and 180 degrees"
    ELSE ""

\* generateGeoUri with the longitude written first.
GeoUriLongitudeFirst(latitude, longitude) ==
    <<"g", "e", "o", ":">> \o toFixed(longitude) \o <<",">> \o toFixed(latitude)

\* generateGeoUri
generateGeoUri(latitude, longitude) ==
    <<"g", "e", "o", ":">> \o toFixed(latitude) \o <<",">> \o toFixed(longitude)

NoParse == ParseFailure("")
NoLocationResult == [success |-> FALSE, error |-> "", geoUri |-> <<>>]
LocationFailure(e) == [success |-> FALSE, error |-> e, geoUri |-> <<>>]

\* LocationQRGenerator.init: the canvas element is looked up and kept.
LocationInit ==
    /\ pc = "ready"
    /\ ~canvas
    /\ canvas' = TRUE
    /\ UNCHANGED <<pc, mapsUrl, parseResult, locationResult>>

\* generateLocationQR: parse, validate, build the geo URI, render.  A missing
\* canvas or a failing renderer is caught and returned as a failure.
generateLocationQR ==
    /\ pc = "ready"
    /\ pc' = "done"
    /\ UNCHANGED <<canvas, mapsUrl>>
    /\ IF ~canvas
       THEN /\ parseResult' = parseResult
            /\ locationResult' = LocationFailure("QR canvas not initialized")
       ELSE \E parsed \in {parseGoogleMapsUrl(mapsUrl)} :
            \E validation \in {validateCoordinates(parsed.latitude, parsed.longitude)} :
              /\ parseResult' = parsed
              /\ IF ~parsed.success THEN locationResult' = LocationFailure(parsed.error)
                 ELSE IF validation # "" THEN locationResult' = LocationFailure(validation)
                 ELSE \E rendered \in BOOLEAN :
                        locationResult' =
                          IF rendered
                          THEN [success |-> TRUE, error |-> "",
                                geoUri |-> generateGeoUri(parsed.latitude, parsed.longitude)]
                          ELSE LocationFailure("Failed to generate location QR code")

\* Map URLs: a host followed by up to MaxSegments segments, each one of the
\* shapes the patterns look for, carrying a latitude and a longitude literal.
Hosts ==
    {<<"h","t","t","p","s",":","/","/","m","a","p","s",".","g","o","o","g","l","e",".",
       "c","o","m","/","m","a","p","s">>,
     <<"h","t","t","p","s",":","/","/","w","w","w",".","g","o","o","g","l","e",".",
       "c","o","m","/","m","a","p","s">>,
     <<"h","t","t","p","s",":","/","/","g","o","o",".","g","l","/","m","a","p","s">>,
     <<"h","t","t","p","s",":","/","/","m","a","p","s",".","a","p","p",".","g","o","o",
       ".","g","l">>}

\* 40.7128,-74.0060 (in range), 95.1234,-74.0060 (latitude out of range) and
\* -33,200.5 (integer latitude, longitude out of range, too few fraction
\* digits for the last pattern)
CoordinateLiterals ==
    {<<"4", "0", ".", "7", "1", "2", "8", ",", "-", "7", "4", ".", "0", "0", "6", "0">>,
     <<"9", "5", ".", "1", "2", "3", "4", ",", "-", "7", "4", ".", "0", "0", "6", "0">>,
     <<"-", "3", "3", ",", "2", "0", "0", ".", "5">>}

SegmentHeads ==
    {<<"&", "q", "=">>, <<"/", "@">>, <<"/">>, <<"&", "l", "l", "=">>,
     <<"&", "c", "e", "n", "t", "e", "r", "=">>, <<"&", "d", "a", "t", "a", "=">>}

Segments ==
    {head \o pair \o (IF head = <<"/", "@">> THEN <<",", "1", "5", "z">> ELSE <<>>) :
       head \in SegmentHeads, pair \in CoordinateLiterals}
      \cup {<<"/", "p", "l", "a", "c", "e", "/", "x">>}

RECURSIVE SegmentPaths(_)
SegmentPaths(n) ==
    IF n = 0 THEN {<<>>}
    ELSE SegmentPaths(n - 1) \cup {p \o seg : p \in SegmentPaths(n - 1), seg \in Segments}

\* The map URLs with up to n segments.
MapsUrlInputs(n) == {host \o path : host \in Hosts, path \in SegmentPaths(n)}

----------------------------------------------------------------------------
(* IBAN: src/src/scripts/components/payment-form-validator.js *)

UpperCase ==
    <<"A", "B", "C", "D", "E", "F", "G", "H", "I", "J", "K", "L", "M", "N", "O", "P", "Q",
      "R", "S", "T", "U", "V", "W", "X", "Y", "Z">>
LowerCase ==
    <<"a", "b", "c", "d", "e", "f", "g", "h", "i", "j", "k", "l", "m", "n", "o", "p", "q",
      "r", "s", "t", "u", "v", "w", "x", "y", "z">>

UpperLetter == {UpperCase[i] : i \in 1..26}
LowerLetter == {LowerCase[i] : i \in 1..26}

\* String.prototype.charCodeAt(0) of a capital letter: A is 65.
charCodeAt(c) == 64 + (CHOOSE i \in 1..26 : UpperCase[i] = c)

\* String.prototype.toUpperCase()
toUpperCase(s) ==
    [i \in 1..Len(s) |->
        IF s[i] \in LowerLetter THEN UpperCase[CHOOSE k \in 1..26 : LowerCase[k] = s[i]]
        ELSE s[i]]

\* String.prototype.replace(/\s/g, '')
RECURSIVE RemoveWhiteSpace(_)
RemoveWhiteSpace(s) ==
    IF s = <<>> THEN <<>>
    ELSE (IF Head(s) \in WhiteSpace THEN <<>> ELSE <<Head(s)>>) \o RemoveWhiteSpace(Tail(s))

\* /^[A-Z]{2}[0-9]{2}[A-Z0-9]{4}[0-9]{7}([A-Z0-9]?){0,16}$/.test(s)
ibanRegex(s) ==
    /\ Len(s) >= 15 /\ Len(s) <= 31
    /\ \A i \in 1..Len(s) :
         CASE i <= 2 -> s[i] \in UpperLetter
           [] i >= 3 /\ i <= 4 -> s[i] \in Digit
           [] i >= 5 /\ i <= 8 -> s[i] \in UpperLetter \cup Digit
           [] i >= 9 /\ i <= 15 -> s[i] \in Digit
           [] OTHER -> s[i] \in UpperLetter \cup Digit

\* rearranged.replace(/[A-Z]/g, char => (char.charCodeAt(0) - 55).toString())
RECURSIVE LettersFromOne(_)
LettersFromOne(s) ==
    IF s = <<>> THEN <<>>
    ELSE (IF Head(s) \in UpperLetter THEN IntToDigits(charCodeAt(Head(s)) - 64)
          ELSE <<Head(s)>>) \o LettersFromOne(Tail(s))

RECURSIVE LettersToNumbers(_)
LettersToNumbers(s) ==
    IF s = <<>> THEN <<>>
    ELSE (IF Head(s) \in UpperLetter THEN IntToDigits(charCodeAt(Head(s)) - 55)
          ELSE <<Head(s)>>) \o LettersToNumbers(Tail(s))

\* The loop of validateIBANChecksum over the first n digits:
\* remainder = (remainder * 10 + parseInt(numericString[i])) % 97
RECURSIVE RunningRemainder(_, _)
RunningRemainder(numericString, n) ==
    IF n = 0 THEN 0
    ELSE (RunningRemainder(numericString, n - 1) * 10 + DigitVal(numericString[n])) % 97

RemainderNotRearranged(iban) ==
    RunningRemainder(LettersToNumbers(iban), Len(LettersToNumbers(iban)))

\* The remainder validateIBANChecksum ends with.
ibanRemainder(iban) ==
    RunningRemainder(
        LettersToNumbers(SubSeq(iban, 5, Len(iban)) \o SubSeq(iban, 1, 4)),
        Len(LettersToNumbers(SubSeq(iban, 5, Len(iban)) \o SubSeq(iban, 1, 4))))

\* validateIBANChecksum
validateIBANChecksum(iban) == ibanRemainder(iban) = 1

NoIbanResult == [error |-> "", cleanIban |-> <<>>, remainder |-> 0]

\* validateIBANData, the IBAN code part: clean, test the format, then the checksum.
validateIBANCode ==
    /\ pc = "ready"
    /\ pc' = "done"
    /\ UNCHANGED ibanCode
    /\ \E cleanIban \in {toUpperCase(RemoveWhiteSpace(ibanCode))} :
         IF ~ibanRegex(cleanIban)
         THEN ibanResult' = [error |-> "Invalid IBAN format", cleanIban |-> cleanIban,
                             remainder |-> 0]
         ELSE \E remainder \in {ibanRemainder(cleanIban)} :
                ibanResult' =
                  [error |-> IF validateIBANChecksum(cleanIban) THEN ""
                             ELSE "Invalid IBAN checksum",
                   cleanIban |-> cleanIban, remainder |-> remainder]

\* IBAN inputs: a country, two check digits, a bank code, an account number
\* and a tail of up to MaxIbanTail further characters, typed in capitals, with
\* a lower-case country or with a space after the check digits.
IbanCountries == {<<"D", "E">>, <<"G", "B">>}
IbanBanks == {<<"3", "7", "0", "4">>, <<"W", "E", "S", "T">>, <<"3", "7", "-", "4">>}
IbanAccount == <<"0", "0", "4", "4", "0", "5", "3">>
IbanTail == <<"2", "0", "1", "3", "0", "0", "0", "9", "Z">>
DE89 ==
    <<"D", "E", "8", "9", "3", "7", "0", "4", "0", "0", "4", "4", "0", "5", "3", "2", "0",
      "1", "3", "0", "0", "0">>

IbanInputs(maxTail) ==
    {(IF style = "lower" THEN <<LowerCase[CHOOSE k \in 1..26 : UpperCase[k] = country[1]],
                               country[2]>>
      ELSE country)
       \o <<DigitChars[d1 + 1], DigitChars[d2 + 1]>>
       \o (IF style = "spaced" THEN <<" ">> ELSE <<>>)
       \o bank \o IbanAccount \o SubSeq(IbanTail, 1, n) :
       country \in IbanCountries, d1 \in 0..9, d2 \in 0..9, bank \in IbanBanks,
       n \in 0..maxTail, style \in {"plain", "lower", "spaced"}}

----------------------------------------------------------------------------
(* Payment: src/src/scripts/components/payment-form-validator.js,
   src/src/scripts/main.js, src/src/scripts/components/payment-qr-generator.js *)

Letter == UpperLetter \cup LowerLetter

\* /^[chars]*$/.test(s)
AllIn(s, chars) == \A i \in 1..Len(s) : s[i] \in chars

\* Index of the last character of the run of chars that starts at i
\* (i - 1 when s[i] is not one of them): a greedy [chars]*.
RECURSIVE RunEnd(_, _, _)
RunEnd(s, i, chars) ==
    IF i <= Len(s) /\ s[i] \in chars THEN RunEnd(s, i + 1, chars) ELSE i - 1

\* String.prototype.toLowerCase()
toLowerCase(s) ==
    [i \in 1..Len(s) |->
        IF s[i] \in UpperLetter THEN LowerCase[CHOOSE k \in 1..26 : UpperCase[k] = s[i]]
        ELSE s[i]]

\* The characters the regular expression dot does not match.
LineTerminator == {"\n", "\r"}

\* null and undefined: a value no string equals (strings are sequences of
\* one-character strings).
null == <<"null">>

UsernameChars == Letter \cup Digit \cup {".", "_", "-"}      \* [a-zA-Z0-9._-]
Base58Chars == (Letter \cup Digit) \ {"0", "O", "I", "l"}    \* [a-km-zA-HJ-NP-Z1-9]
HexChars == Digit \cup HexLetter                             \* [a-fA-F0-9]
NameChars == Letter \cup WhiteSpace \cup {".", "'", "-"}     \* [a-zA-Z\s.'-]
IbanChars == UpperLetter \cup Digit                          \* [A-Z0-9]

usernameRegex(s) == s # <<>> /\ AllIn(s, UsernameChars)

bitcoinRegex(s) ==
    /\ Len(s) >= 26 /\ Len(s) <= 35
    /\ s[1] \in {"1", "3"}
    /\ \A i \in 2..Len(s) : s[i] \in Base58Chars

ethereumRegex(s) ==
    /\ Len(s) = 42
    /\ s[1] = "0" /\ s[2] = "x"
    /\ \A i \in 3..Len(s) : s[i] \in HexChars

upiRegex(s) ==
    \E i \in 2..(Len(s) - 1) :
        /\ s[i] = "@"
        /\ \A k \in 1..Len(s) : k # i => s[k] \in UsernameChars

nameRegex(s) == s # <<>> /\ AllIn(s, NameChars)

\* amount <= 0, or amount is NaN
NotPositive(x) == x.nan \/ x.neg \/ (x.int = 0 /\ x.frac = <<>>)

\* The amount check the five validators share: skipped for a blank amount.
\* (The currency signs of two messages are left out of the model's text.)
AmountErrors(amt, cap, notPositive, tooLarge) ==
    IF amt # <<>> /\ Trim(amt) # <<>>
    THEN (IF NotPositive(parseFloat(amt)) THEN <<notPositive>> ELSE <<>>)
         \o (IF GreaterThan(parseFloat(amt), cap) THEN <<tooLarge>> ELSE <<>>)
    ELSE <<>>

\* The name check validateUPIData and validateIBANData share.
NameErrors(name, who) ==
    IF name # <<>>
    THEN (IF Len(name) < 2 THEN <<who \o " must be at least 2 characters long">> ELSE <<>>)
         \o (IF Len(name) > 100 THEN <<who \o " must be less than 100 characters">> ELSE <<>>)
         \o (IF ~nameRegex(name)
             THEN <<who \o " can only contain letters, spaces, dots, apostrophes, and hyphens">>
             ELSE <<>>)
    ELSE <<>>

validatePayPalData(data) ==
    (IF data.paypalUsername # <<>>
     THEN (IF ~usernameRegex(data.paypalUsername)
           THEN <<"PayPal username can only contain letters, numbers, dots, underscores, and hyphens">>
           ELSE <<>>)
          \o (IF Len(data.paypalUsername) < 3
              THEN <<"PayPal username must be at least 3 characters long">> ELSE <<>>)
          \o (IF Len(data.paypalUsername) > 50
              THEN <<"PayPal username must be less than 50 characters">> ELSE <<>>)
     ELSE <<>>)
    \o AmountErrors(data.paypalAmount, 10000, "PayPal amount must be a positive number",
                    "PayPal amount cannot exceed $10,000")

validateBitcoinData(data) ==
    (IF data.cryptoAddress # <<>> /\ ~bitcoinRegex(data.cryptoAddress)
     THEN <<"Invalid Bitcoin address format">> ELSE <<>>)
    \o AmountErrors(data.cryptoAmount, 21, "Bitcoin amount must be a positive number",
                    "Bitcoin amount cannot exceed 21 BTC")

validateEthereumData(data) ==
    (IF data.cryptoAddress # <<>> /\ ~ethereumRegex(data.cryptoAddress)
     THEN <<"Invalid Ethereum address format (must start with 0x and be 42 characters long)">>
     ELSE <<>>)
    \o AmountErrors(data.cryptoAmount, 1000, "Ethereum amount must be a positive number",
                    "Ethereum amount cannot exceed 1000 ETH")

validateUPIData(data) ==
    (IF data.upiId # <<>> /\ ~upiRegex(data.upiId)
     THEN <<"Invalid UPI ID format (should be like user@bank)">> ELSE <<>>)
    \o NameErrors(data.upiName, "Payee name")
    \o AmountErrors(data.upiAmount, 100000, "UPI amount must be a positive number",
                    "UPI amount cannot exceed 1,00,000")

\* The error validateIBANData pushes for the code: "" when it pushes none.
IbanCodeError(code) ==
    IF ~ibanRegex(toUpperCase(RemoveWhiteSpace(code))) THEN "Invalid IBAN format"
    ELSE IF ~validateIBANChecksum(toUpperCase(RemoveWhiteSpace(code)))
         THEN "Invalid IBAN checksum"
    ELSE ""

validateIBANData(data) ==
    (IF data.ibanCode # <<>> /\ IbanCodeError(data.ibanCode) # ""
     THEN <<IbanCodeError(data.ibanCode)>> ELSE <<>>)
    \o NameErrors(data.ibanName, "Account holder name")
    \o AmountErrors(data.ibanAmount, 999999, "IBAN amount must be a positive number",
                    "IBAN amount cannot exceed 999,999")

\* new URL(s): the scheme is a letter followed by letters, digits, "+", "-"
\* or ".", up to the first ":"; a string without one does not parse (there is
\* no base URL).  SchemeEnd is the index of that ":" (0 when there is none).
SchemeEnd(s) ==
    IF s # <<>> /\ s[1] \in Letter
          /\ RunEnd(s, 2, Letter \cup Digit \cup {"+", "-", "."}) < Len(s)
          /\ s[RunEnd(s, 2, Letter \cup Digit \cup {"+", "-", "."}) + 1] = ":"
    THEN RunEnd(s, 2, Letter \cup Digit \cup {"+", "-", "."}) + 1
    ELSE 0

\* url.protocol: the scheme in lower case, with its colon.
protocol(s) == toLowerCase(SubSeq(s, 1, SchemeEnd(s)))

\* Index of the last character of the run of characters outside stop that
\* starts at i (i - 1 when s[i] is one of stop): a greedy [^stop]*.
RECURSIVE RunEndNot(_, _, _)
RunEndNot(s, i, stop) ==
    IF i <= Len(s) /\ s[i] \notin stop THEN RunEndNot(s, i + 1, stop) ELSE i - 1

\* The host of an http(s) URL: what follows the slashes after the scheme, up
\* to the next "/", "\", "?" or "#" (URLs with credentials or a port are not
\* among the modelled inputs).
HostStart(s) == RunEnd(s, SchemeEnd(s) + 1, {"/", "\\"}) + 1
UrlHost(s) == SubSeq(s, HostStart(s), RunEndNot(s, HostStart(s), {"/", "\\", "?", "#"}))

\* new URL(s) throws: no scheme, or an http(s) URL whose host is empty or
\* holds a character no host may hold.
UrlThrows(s) ==
    \/ SchemeEnd(Trim(s)) = 0
    \/ /\ protocol(Trim(s)) \in {<<"h", "t", "t", "p", ":">>, <<"h", "t", "t", "p", "s", ":">>}
       /\ \/ UrlHost(Trim(s)) = <<>>
          \/ \E i \in 1..Len(UrlHost(Trim(s))) :
                UrlHost(Trim(s))[i] \in {" ", "<", ">", "^", "|"}

suspiciousPatterns ==
    {<<"j", "a", "v", "a", "s", "c", "r", "i", "p", "t", ":">>, <<"d", "a", "t", "a",
        ":">>, <<"v", "b", "s", "c", "r", "i", "p", "t", ":">>, <<"<", "s", "c", "r", "i", "p",
        "t">>, <<"o", "n", "c", "l", "i", "c", "k">>, <<"o", "n", "e", "r", "r", "o", "r">>,
     <<"o", "n", "l", "o", "a", "d">>}

containsSuspiciousPatterns(url) ==
    \E pattern \in suspiciousPatterns : Includes(toLowerCase(url), pattern)

validateURLData(data) ==
    IF data.paymentUrl = <<>> THEN <<>>
    ELSE IF UrlThrows(data.paymentUrl) THEN <<"Invalid payment URL format">>
    ELSE (IF protocol(Trim(data.paymentUrl)) \notin {<<"h", "t", "t", "p", ":">>, <<"h", "t",
        "t", "p", "s", ":">>}
          THEN <<"Payment URL must use HTTP or HTTPS protocol">> ELSE <<>>)
         \o (IF Len(data.paymentUrl) > 2048
             THEN <<"Payment URL is too long (maximum 2048 characters)">> ELSE <<>>)
         \o (IF containsSuspiciousPatterns(data.paymentUrl)
             THEN <<"Payment URL contains suspicious patterns">> ELSE <<>>)

PaymentTypes == {"paypal", "bitcoin", "ethereum", "upi", "iban", "url"}

\* validationRules[paymentType].required
validationRules(paymentType) ==
    CASE paymentType = "paypal" -> <<"paymentType", "paypalUsername">>
      [] paymentType = "bitcoin" -> <<"paymentType", "cryptoAddress">>
      [] paymentType = "ethereum" -> <<"paymentType", "cryptoAddress">>
      [] paymentType = "upi" -> <<"paymentType", "upiId", "upiName">>
      [] paymentType = "iban" -> <<"paymentType", "ibanCode", "ibanName">>
      [] paymentType = "url" -> <<"paymentType", "paymentUrl">>

getFieldErrorMessage(field) ==
    CASE field = "paymentType" -> "Please select a payment type"
      [] field = "paypalUsername" -> "PayPal username is required"
      [] field = "cryptoAddress" -> "Wallet address is required"
      [] field = "upiId" -> "UPI ID is required"
      [] field = "upiName" -> "Payee name is required"
      [] field = "ibanCode" -> "IBAN code is required"
      [] field = "ibanName" -> "Account holder name is required"
      [] field = "paymentUrl" -> "Payment URL is required"

\* !paymentData[field] || paymentData[field].trim() === ''
\* (the payment type is a select value, kept as a whole string)
FieldMissing(data, field) ==
    IF field = "paymentType" THEN data.paymentType = "" ELSE Trim(data[field]) = <<>>

RECURSIVE RequiredErrors(_, _)
RequiredErrors(data, required) ==
    IF required = <<>> THEN <<>>
    ELSE (IF FieldMissing(data, Head(required))
          THEN <<getFieldErrorMessage(Head(required))>> ELSE <<>>)
         \o RequiredErrors(data, Tail(required))

\* validatePaymentData: the errors array (isValid is errors.length === 0).
validatePaymentData(data) ==
    IF data.paymentType = "" THEN <<"Please select a payment type">>
    ELSE IF data.paymentType \notin PaymentTypes
         THEN <<"Unsupported payment type selected">>
    ELSE RequiredErrors(data, validationRules(data.paymentType))
         \o (CASE data.paymentType = "paypal" -> validatePayPalData(data)
               [] data.paymentType = "bitcoin" -> validateBitcoinData(data)
               [] data.paymentType = "ethereum" -> validateEthereumData(data)
               [] data.paymentType = "upi" -> validateUPIData(data)
               [] data.paymentType = "iban" -> validateIBANData(data)
               [] data.paymentType = "url" -> validateURLData(data))

\* encodeURIComponent: letters, digits and - _ . ! ~ * ' ( ) are kept, every
\* other character becomes % and the two hexadecimal digits of its code
\* (the characters of the modelled inputs are all below U+0080).
UnreservedChars == Letter \cup Digit \cup {"-", "_", ".", "!", "~", "*", "'", "(", ")"}

PercentCodes ==
    << <<" ", "2", "0">>, <<"\t", "0", "9">>, <<"\n", "0", "A">>, <<"\r", "0", "D">>,
       <<"\"", "2", "2">>, <<"#", "2", "3">>, <<"$", "2", "4">>, <<"%", "2", "5">>,
       <<"&", "2", "6">>, <<"+", "2", "B">>, <<",", "2", "C">>, <<"/", "2", "F">>,
       <<":", "3", "A">>, <<";", "3", "B">>, <<"<", "3", "C">>, <<"=", "3", "D">>,
       <<">", "3", "E">>, <<"?", "3", "F">>, <<"@", "4", "0">>, <<"\\", "5", "C">> >>

PercentCode(c) == CHOOSE k \in 1..Len(PercentCodes) : PercentCodes[k][1] = c

RECURSIVE encodeURIComponent(_)
encodeURIComponent(s) ==
    IF s = <<>> THEN <<>>
    ELSE IF Len(s) = 1
    THEN (IF s[1] \in UnreservedChars THEN s
          ELSE <<"%", PercentCodes[PercentCode(s[1])][2],
                 PercentCodes[PercentCode(s[1])][3]>>)
    ELSE encodeURIComponent(SubSeq(s, 1, Len(s) \div 2))
         \o encodeURIComponent(SubSeq(s, Len(s) \div 2 + 1, Len(s)))

\* data.amount && parseFloat(data.amount) > 0
AmountGiven(amt) == amt # <<>> /\ GreaterThan(parseFloat(amt), 0)

generatePayPalString(data) ==
    <<"h", "t", "t", "p", "s", ":", "/", "/", "p", "a", "y", "p", "a", "l", ".", "m", "e",
        "/">> \o data.paypalUsername
    \o (IF AmountGiven(data.paypalAmount) THEN <<"/">> \o data.paypalAmount ELSE <<>>)

generateBitcoinString(data) ==
    <<"b", "i", "t", "c", "o", "i", "n", ":">> \o data.cryptoAddress
    \o (IF AmountGiven(data.cryptoAmount) THEN <<"?", "a", "m", "o", "u", "n", "t",
        "=">> \o data.cryptoAmount ELSE <<>>)

generateEthereumString(data) ==
    <<"e", "t", "h", "e", "r", "e", "u", "m", ":">> \o data.cryptoAddress
    \o (IF AmountGiven(data.cryptoAmount) THEN <<"?", "v", "a", "l", "u", "e",
        "=">> \o data.cryptoAmount ELSE <<>>)

UPIStringWithoutCurrency(data) ==
    <<"u", "p", "i", ":", "/", "/", "p", "a", "y", "?", "p", "a", "=">> \o data.upiId \o <<"&",
        "p", "n", "=">> \o encodeURIComponent(data.upiName)
    \o (IF AmountGiven(data.upiAmount) THEN <<"&", "a", "m", "=">> \o data.upiAmount ELSE <<>>)

generateUPIString(data) ==
    <<"u", "p", "i", ":", "/", "/", "p", "a", "y", "?", "p", "a", "=">> \o data.upiId \o <<"&",
        "p", "n", "=">> \o encodeURIComponent(data.upiName)
    \o (IF AmountGiven(data.upiAmount)
        THEN <<"&", "a", "m", "=">> \o data.upiAmount \o <<"&", "c", "u", "=", "I", "N",
            "R">> ELSE <<>>)

generateIBANString(data) ==
    <<"i", "b", "a", "n", ":">> \o data.ibanCode \o <<"?", "b", "e", "n", "e", "f", "i", "c",
        "i", "a", "r", "y", "=">> \o encodeURIComponent(data.ibanName)
    \o (IF AmountGiven(data.ibanAmount)
        THEN <<"&", "a", "m", "o", "u", "n", "t", "=">> \o data.ibanAmount \o <<"&", "c", "u",
            "r", "r", "e", "n", "c", "y", "=", "E", "U", "R">> ELSE <<>>)

\* generatePaymentString, for a supported payment type.
generatePaymentString(data) ==
    CASE data.paymentType = "paypal" -> generatePayPalString(data)
      [] data.paymentType = "bitcoin" -> generateBitcoinString(data)
      [] data.paymentType = "ethereum" -> generateEthereumString(data)
      [] data.paymentType = "upi" -> generateUPIString(data)
      [] data.paymentType = "iban" -> generateIBANString(data)
      [] data.paymentType = "url" -> data.paymentUrl

\* String.prototype.split(c): the pieces between the occurrences of c.
RECURSIVE Split(_, _)
Split(s, c) ==
    IF \A i \in 1..Len(s) : s[i] # c THEN <<s>>
    ELSE <<SubSeq(s, 1, RunEndNot(s, 1, {c}))>>
         \o Split(SubSeq(s, RunEndNot(s, 1, {c}) + 2, Len(s)), c)

\* The character a percent code stands for.
PercentChar(h1, h2) ==
    PercentCodes[CHOOSE k \in 1..Len(PercentCodes) :
                    PercentCodes[k][2] = h1 /\ PercentCodes[k][3] = h2][1]

IsPercentCode(h1, h2) ==
    \E k \in 1..Len(PercentCodes) : PercentCodes[k][2] = h1 /\ PercentCodes[k][3] = h2

\* The decoding URLSearchParams applies to a name or a value: "+" is a space,
\* % with two hexadecimal digits is the character of that code, anything
\* else is kept.
RECURSIVE FormDecode(_)
FormDecode(s) ==
    IF s = <<>> THEN <<>>
    ELSE IF Head(s) = "+" THEN <<" ">> \o FormDecode(Tail(s))
    ELSE IF Head(s) = "%" /\ Len(s) >= 3
            /\ IsPercentCode(toUpperCase(<<s[2]>>)[1], toUpperCase(<<s[3]>>)[1])
         THEN <<PercentChar(toUpperCase(<<s[2]>>)[1], toUpperCase(<<s[3]>>)[1])>>
              \o FormDecode(SubSeq(s, 4, Len(s)))
    ELSE <<Head(s)>> \o FormDecode(Tail(s))

\* new URLSearchParams(query).get(name): the decoded value of the first
\* name=value pair with that name, null when there is none.
RECURSIVE FirstValue(_, _)
FirstValue(pairs, name) ==
    IF pairs = <<>> THEN null
    ELSE IF Head(pairs) # <<>>
            /\ FormDecode(SubSeq(Head(pairs), 1, RunEndNot(Head(pairs), 1, {"="}))) = name
         THEN FormDecode(SubSeq(Head(pairs), RunEndNot(Head(pairs), 1, {"="}) + 2,
                                Len(Head(pairs))))
    ELSE FirstValue(Tail(pairs), name)

URLSearchParamsGet(query, name) ==
    FirstValue(Split(IF query # <<>> /\ query[1] = "?" THEN Tail(query) ELSE query, "&"),
               name)

getPaymentTypeFromString(paymentString) ==
    IF StartsWith(paymentString, <<"h", "t", "t", "p", "s", ":", "/", "/", "p", "a", "y", "p",
        "a", "l", ".", "m", "e", "/">>) THEN "paypal"
    ELSE IF StartsWith(paymentString, <<"b", "i", "t", "c", "o", "i", "n", ":">>) THEN "bitcoin"
    ELSE IF StartsWith(paymentString, <<"e", "t", "h", "e", "r", "e", "u", "m",
        ":">>) THEN "ethereum"
    ELSE IF StartsWith(paymentString, <<"u", "p", "i", ":", "/", "/">>) THEN "upi"
    ELSE IF StartsWith(paymentString, <<"i", "b", "a", "n", ":">>) THEN "iban"
    ELSE IF StartsWith(paymentString, <<"h", "t", "t", "p">>) THEN "url"
    ELSE "unknown"

\* The query a (?:\?(.*))? group captures after index b: "" when it does not match.
QueryAfter(s, b) ==
    IF b + 1 <= Len(s) /\ s[b + 1] = "?"
    THEN SubSeq(s, b + 2, RunEndNot(s, b + 2, LineTerminator))
    ELSE <<>>

\* /https:\/\/paypal\.me\/([a-zA-Z0-9._-]+)(?:\/(.+))?/: the leftmost match.
extractPayPalInfo(paymentString) ==
    LET prefix == <<"h", "t", "t", "p", "s", ":", "/", "/", "p", "a", "y", "p", "a", "l", ".",
        "m", "e", "/">>
        starts == {i \in 1..Len(paymentString) :
                     /\ OccursAt(paymentString, prefix, i)
                     /\ i + Len(prefix) <= Len(paymentString)
                     /\ paymentString[i + Len(prefix)] \in UsernameChars}
    IN  IF starts = {} THEN [type |-> "paypal", raw |-> paymentString]
        ELSE LET a == MinOf(starts) + Len(prefix)
                 b == RunEnd(paymentString, a, UsernameChars)
                 c == RunEndNot(paymentString, b + 2, LineTerminator)
             IN  [type |-> "paypal",
                  username |-> SubSeq(paymentString, a, b),
                  amount |-> IF b + 2 <= Len(paymentString) /\ paymentString[b + 1] = "/"
                                  /\ c >= b + 2
                             THEN SubSeq(paymentString, b + 2, c) ELSE null,
                  url |-> paymentString]

\* /bitcoin:([13][a-km-zA-HJ-NP-Z1-9]{25,34})(?:\?(.*))?/
extractBitcoinInfo(paymentString) ==
    LET prefix == <<"b", "i", "t", "c", "o", "i", "n", ":">>
        starts == {i \in 1..Len(paymentString) :
                     /\ OccursAt(paymentString, prefix, i)
                     /\ i + Len(prefix) <= Len(paymentString)
                     /\ paymentString[i + Len(prefix)] \in {"1", "3"}
                     /\ RunEnd(paymentString, i + Len(prefix) + 1, Base58Chars)
                          >= i + Len(prefix) + 25}
    IN  IF starts = {} THEN [type |-> "bitcoin", raw |-> paymentString]
        ELSE LET a == MinOf(starts) + Len(prefix)
                 b == MinOf({RunEnd(paymentString, a + 1, Base58Chars), a + 34})
                 query == QueryAfter(paymentString, b)
             IN  [type |-> "bitcoin",
                  address |-> SubSeq(paymentString, a, b),
                  amount |-> URLSearchParamsGet(query, <<"a", "m", "o", "u", "n", "t">>),
                  label |-> URLSearchParamsGet(query, <<"l", "a", "b", "e", "l">>),
                  message |-> URLSearchParamsGet(query, <<"m", "e", "s", "s", "a", "g", "e">>),
                  uri |-> paymentString]

\* /ethereum:(0x[a-fA-F0-9]{40})(?:\?(.*))?/
extractEthereumInfo(paymentString) ==
    LET prefix == <<"e", "t", "h", "e", "r", "e", "u", "m", ":", "0", "x">>
        starts == {i \in 1..Len(paymentString) :
                     /\ OccursAt(paymentString, prefix, i)
                     /\ RunEnd(paymentString, i + Len(prefix), HexChars)
                          >= i + Len(prefix) + 39}
    IN  IF starts = {} THEN [type |-> "ethereum", raw |-> paymentString]
        ELSE LET a == MinOf(starts) + Len(prefix) - 2
                 b == a + 41
                 query == QueryAfter(paymentString, b)
             IN  [type |-> "ethereum",
                  address |-> SubSeq(paymentString, a, b),
                  value |-> URLSearchParamsGet(query, <<"v", "a", "l", "u", "e">>),
                  gas |-> URLSearchParamsGet(query, <<"g", "a", "s">>),
                  gasPrice |-> URLSearchParamsGet(query, <<"g", "a", "s", "P", "r", "i", "c",
                      "e">>),
                  uri |-> paymentString]

\* new URLSearchParams(paymentString.split('?')[1] || '')
extractUPIInfo(paymentString) ==
    LET pieces == Split(paymentString, "?")
        query == IF Len(pieces) >= 2 THEN pieces[2] ELSE <<>>
    IN  [type |-> "upi",
         payeeAddress |-> URLSearchParamsGet(query, <<"p", "a">>),
         payeeName |-> URLSearchParamsGet(query, <<"p", "n">>),
         amount |-> URLSearchParamsGet(query, <<"a", "m">>),
         currency |-> URLSearchParamsGet(query, <<"c", "u">>),
         transactionId |-> URLSearchParamsGet(query, <<"t", "i", "d">>),
         transactionRef |-> URLSearchParamsGet(query, <<"t", "r">>),
         note |-> URLSearchParamsGet(query, <<"t", "n">>),
         uri |-> paymentString]

\* [A-Z]{2}[0-9]{2}[A-Z0-9]{4}[0-9]{7} at index a of s.
IbanHeadAt(s, a) ==
    /\ a + 14 <= Len(s)
    /\ \A k \in 0..14 :
         CASE k <= 1 -> s[a + k] \in UpperLetter
           [] k >= 2 /\ k <= 3 -> s[a + k] \in Digit
           [] k >= 4 /\ k <= 7 -> s[a + k] \in IbanChars
           [] OTHER -> s[a + k] \in Digit

\* /iban:([A-Z]{2}[0-9]{2}[A-Z0-9]{4}[0-9]{7}(?:[A-Z0-9]?){0,16})(?:\?(.*))?/
extractIBANInfo(paymentString) ==
    LET prefix == <<"i", "b", "a", "n", ":">>
        starts == {i \in 1..Len(paymentString) :
                     /\ OccursAt(paymentString, prefix, i)
                     /\ IbanHeadAt(paymentString, i + Len(prefix))}
    IN  IF starts = {} THEN [type |-> "iban", raw |-> paymentString]
        ELSE LET a == MinOf(starts) + Len(prefix)
                 b == MinOf({RunEnd(paymentString, a + 15, IbanChars), a + 30})
                 query == QueryAfter(paymentString, b)
             IN  [type |-> "iban",
                  iban |-> SubSeq(paymentString, a, b),
                  beneficiary |-> URLSearchParamsGet(query, <<"b", "e", "n", "e", "f", "i", "c",
                      "i", "a", "r", "y">>),
                  amount |-> URLSearchParamsGet(query, <<"a", "m", "o", "u", "n", "t">>),
                  currency |-> URLSearchParamsGet(query, <<"c", "u", "r", "r", "e", "n", "c",
                      "y">>),
                  reference |-> URLSearchParamsGet(query, <<"r", "e", "f", "e", "r", "e", "n",
                      "c", "e">>),
                  uri |-> paymentString]

extractPaymentInfo(paymentString) ==
    CASE getPaymentTypeFromString(paymentString) = "paypal" -> extractPayPalInfo(paymentString)
      [] getPaymentTypeFromString(paymentString) = "bitcoin" ->
            extractBitcoinInfo(paymentString)
      [] getPaymentTypeFromString(paymentString) = "ethereum" ->
            extractEthereumInfo(paymentString)
      [] getPaymentTypeFromString(paymentString) = "upi" -> extractUPIInfo(paymentString)
      [] getPaymentTypeFromString(paymentString) = "iban" -> extractIBANInfo(paymentString)
      [] getPaymentTypeFromString(paymentString) = "url" ->
            [type |-> "url", url |-> paymentString]
      [] OTHER -> [type |-> "unknown", raw |-> paymentString]

\* Object.fromEntries(formData.entries()) of a form nothing was typed into.
\* (\?.*)?$ : nothing, or a "?" followed by characters a dot matches.
QueryTail(rest) ==
    rest = <<>> \/ (rest[1] = "?" /\ \A i \in 2..Len(rest) : rest[i] \notin LineTerminator)

\* (\/.+)?$ : nothing, or a "/" followed by at least one character a dot matches.
PathTail(rest) ==
    rest = <<>>
    \/ (Len(rest) >= 2 /\ rest[1] = "/" /\ \A i \in 2..Len(rest) : rest[i] \notin LineTerminator)

\* What follows the first n characters of s.
After(s, n) == SubSeq(s, n + 1, Len(s))

\* /^https:\/\/paypal\.me\/[a-zA-Z0-9._-]+(\/.+)?$/.test(s)
paypalStringRegex(s) ==
    /\ StartsWith(s, <<"h", "t", "t", "p", "s", ":", "/", "/", "p", "a", "y", "p", "a", "l",
        ".", "m", "e", "/">>)
    /\ \E k \in 19..Len(s) :
         /\ AllIn(SubSeq(s, 19, k), UsernameChars)
         /\ PathTail(After(s, k))

\* /^bitcoin:[13][a-km-zA-HJ-NP-Z1-9]{25,34}(\?.*)?$/.test(s)
bitcoinStringRegex(s) ==
    /\ StartsWith(s, <<"b", "i", "t", "c", "o", "i", "n", ":">>)
    /\ \E k \in 26..35 :
         /\ 8 + k <= Len(s)
         /\ bitcoinRegex(SubSeq(s, 9, 8 + k))
         /\ QueryTail(After(s, 8 + k))

\* /^ethereum:0x[a-fA-F0-9]{40}(\?.*)?$/.test(s)
ethereumStringRegex(s) ==
    /\ StartsWith(s, <<"e", "t", "h", "e", "r", "e", "u", "m", ":">>)
    /\ Len(s) >= 51
    /\ ethereumRegex(SubSeq(s, 10, 51))
    /\ QueryTail(After(s, 51))

\* /^upi:\/\/pay\?pa=[a-zA-Z0-9._-]+@[a-zA-Z0-9._-]+&pn=.+/.test(s)
upiStringRegex(s) ==
    /\ StartsWith(s, <<"u", "p", "i", ":", "/", "/", "p", "a", "y", "?", "p", "a", "=">>)
    /\ \E k \in 14..Len(s) :
         /\ upiRegex(SubSeq(s, 14, k))
         /\ StartsWith(After(s, k), <<"&", "p", "n", "=">>)
         /\ Len(s) >= k + 5
         /\ s[k + 5] \notin LineTerminator

\* /^iban:[A-Z]{2}[0-9]{2}[A-Z0-9]{4}[0-9]{7}([A-Z0-9]?){0,16}(\?.*)?$/.test(s)
ibanStringRegex(s) ==
    /\ StartsWith(s, <<"i", "b", "a", "n", ":">>)
    /\ \E k \in 15..31 :
         /\ 5 + k <= Len(s)
         /\ ibanRegex(SubSeq(s, 6, 5 + k))
         /\ QueryTail(After(s, 5 + k))

\* The result { isValid: true } and the results { isValid: false, error }.
Valid == [isValid |-> TRUE, error |-> ""]
Invalid(error) == [isValid |-> FALSE, error |-> error]

validatePayPalString(paymentString) ==
    IF ~paypalStringRegex(paymentString) THEN Invalid("Invalid PayPal.me URL format")
    ELSE Valid

validateBitcoinString(paymentString) ==
    IF ~bitcoinStringRegex(paymentString) THEN Invalid("Invalid Bitcoin URI format")
    ELSE Valid

validateEthereumString(paymentString) ==
    IF ~ethereumStringRegex(paymentString) THEN Invalid("Invalid Ethereum URI format")
    ELSE Valid

validateUPIString(paymentString) ==
    IF ~upiStringRegex(paymentString) THEN Invalid("Invalid UPI string format")
    ELSE Valid

validateIBANString(paymentString) ==
    IF ~ibanStringRegex(paymentString) THEN Invalid("Invalid IBAN string format")
    ELSE Valid

validateURLString(paymentString) ==
    IF UrlThrows(paymentString) THEN Invalid("Invalid URL format")
    ELSE IF protocol(Trim(paymentString)) \notin {<<"h", "t", "t", "p", ":">>, <<"h", "t", "t",
        "p", "s", ":">>}
         THEN Invalid("URL must use HTTP or HTTPS protocol")
    ELSE Valid

\* validatePaymentString, for a string or null as payment string.
validatePaymentString(paymentString, paymentType) ==
    IF paymentString = <<>> \/ paymentString = null
    THEN Invalid("Payment string is required")
    ELSE CASE paymentType = "paypal" -> validatePayPalString(paymentString)
           [] paymentType = "bitcoin" -> validateBitcoinString(paymentString)
           [] paymentType = "ethereum" -> validateEthereumString(paymentString)
           [] paymentType = "upi" -> validateUPIString(paymentString)
           [] paymentType = "iban" -> validateIBANString(paymentString)
           [] paymentType = "url" -> validateURLString(paymentString)
           [] OTHER -> Invalid("Unsupported payment type")

EmptyPaymentData ==
    [paymentType |-> "", paypalUsername |-> <<>>, paypalAmount |-> <<>>,
     cryptoAddress |-> <<>>, cryptoAmount |-> <<>>, upiId |-> <<>>, upiName |-> <<>>,
     upiAmount |-> <<>>, ibanCode |-> <<>>, ibanName |-> <<>>, ibanAmount |-> <<>>,
     paymentUrl |-> <<>>]

NoQRCode == [paymentString |-> <<>>]
NoPaymentInfo == [type |-> "none"]

\* handleFormSubmit: validate the form data, build the payment string, have
\* the QR library render it (which may fail), keep the result.
handleFormSubmit ==
    /\ pc = "ready"
    /\ UNCHANGED <<paymentData, paymentInfo>>
    /\ \E errors \in {validatePaymentData(paymentData)} :
         IF errors # <<>>
         THEN /\ pc' = "done"
              /\ paymentError' = errors
              /\ UNCHANGED <<currentQRCode, currentPaymentData>>
         ELSE \E paymentString \in {generatePaymentString(paymentData)} :
              \E rendered \in BOOLEAN :
                IF rendered
                THEN /\ pc' = "submitted"
                     /\ currentQRCode' = [paymentString |-> paymentString]
                     /\ currentPaymentData' = paymentData
                     /\ paymentError' = <<>>
                ELSE /\ pc' = "done"
                     /\ paymentError' =
                          <<"Failed to generate payment QR code. Please try again.">>
                     /\ UNCHANGED <<currentQRCode, currentPaymentData>>

\* extractPaymentInfo applied to the payload generated before.
ExtractCall ==
    /\ pc = "submitted"
    /\ pc' = "done"
    /\ \E info \in {extractPaymentInfo(currentQRCode.paymentString)} : paymentInfo' = info
    /\ UNCHANGED <<paymentData, currentQRCode, currentPaymentData, paymentError>>

\* Form inputs.
JaneDoe == <<"J", "a", "n", "e", " ", "D", "o", "e">>
FooAtBank == <<"f", "o", "o", "@", "b", "a", "n", "k">>
Amount100 == <<"1", "0", "0">>
SatoshiAddress == <<"1", "A", "1", "z", "P", "1", "e", "P", "5", "Q", "G", "e", "f", "i", "2",
    "D", "M", "P", "T", "f", "T", "L", "5", "S", "L", "m", "v", "7", "D", "i", "v", "f", "N", "a">>
EthereumAddress == <<"0", "x", "5", "2", "9", "0", "8", "4", "0", "0", "0", "9", "8", "5", "2",
    "7", "8", "8", "6", "E", "0", "F", "7", "0", "3", "0", "0", "6", "9", "8", "5", "7", "D",
    "2", "E", "4", "1", "6", "9", "E", "E", "7">>
SpacedDE89 == <<"D", "E", "8", "9", " ", "3", "7", "0", "4", " ", "0", "0", "4", "4", " ", "0",
    "5", "3", "2", " ", "0", "1", "3", "0", " ", "0", "0">>

AmountInputs ==
    {<<>>, <<" ">>, Amount100, <<"0">>, <<"-", "5">>, <<"+", "5">>, <<"0", ".", "5">>, <<"a",
        "b", "c">>, <<"2", "2">>, <<"1", "0", "0", "1">>,
     <<"1", "0", "0", "0", "1">>, <<"1", "0", "0", "0", "0", "1">>, <<"1", "0", "0", "0", "0",
         "0", "0">>}

NameInputChars == {"J", " ", "'", "2"}
NameInputs(n) == Strings(NameInputChars, n) \cup {JaneDoe}

PayPalUsernameInputs == {<<>>, <<"a", "b">>, <<"f", "o", "o">>, <<"j", "o", "h", "n", ".", "d",
    "o", "e", "-", "1">>, <<"f", "o", "o", "/", "b", "a", "r">>}
CryptoAddressInputs ==
    {<<>>, SatoshiAddress, <<"n", "o", "t", "-", "a", "n", "-", "a", "d", "d", "r", "e", "s",
        "s">>, EthereumAddress, EthereumAddress \o <<"a">>}
UpiIdInputs == {<<>>, FooAtBank, <<"f", "o", "o">>, <<"a", ".", "b", "-", "c", "@", "d", "_", "e">>}
IbanCodeInputs ==
    {<<>>, DE89, SpacedDE89, toLowerCase(DE89), <<"D", "E", "8", "8", "3", "7", "0", "4", "0",
        "0", "4", "4", "0", "5", "3", "2", "0", "1", "3", "0", "0", "0">>,
     <<"G", "B", "8", "2", "W", "E", "S", "T", "1", "2", "3", "4", "5", "6", "9", "8", "7", "6",
         "5", "4", "3", "2">>, <<"D", "E", "8", "9">>}
PaymentUrlInputs ==
    {<<>>, <<"h", "t", "t", "p", "s", ":", "/", "/", "p", "a", "y", ".", "e", "x", "a", "m",
        "p", "l", "e", "/", "x">>, <<"h", "t", "t", "p", "s", ":", "/", "/", "p", "a", "y", "p",
        "a", "l", ".", "m", "e", "/", "f", "o", "o">>, <<"H", "T", "T", "P", ":", "/", "/", "p",
        "a", "y", ".", "e", "x", "a", "m", "p", "l", "e">>,
     <<"f", "t", "p", ":", "/", "/", "p", "a", "y", ".", "e", "x", "a", "m", "p", "l",
         "e">>, <<"p", "a", "y", ".", "e", "x", "a", "m", "p", "l", "e">>, <<"h", "t", "t", "p",
         "s", ":", "/", "/">>,
     <<"h", "t", "t", "p", "s", ":", "/", "/", "p", "a", "y", ".", "e", "x", "a", "m", "p", "l",
         "e", "/", "?", "o", "n", "l", "o", "a", "d", "=", "1">>}

\* The form entries with names of up to maxName characters.
PaymentInputs(maxName) ==
    {EmptyPaymentData, [EmptyPaymentData EXCEPT !.paymentType = "cash"]}
    \cup {[EmptyPaymentData EXCEPT !.paymentType = "paypal", !.paypalUsername = u,
                                   !.paypalAmount = a] :
            u \in PayPalUsernameInputs, a \in AmountInputs}
    \cup {[EmptyPaymentData EXCEPT !.paymentType = t, !.cryptoAddress = c,
                                   !.cryptoAmount = a] :
            t \in {"bitcoin", "ethereum"}, c \in CryptoAddressInputs, a \in AmountInputs}
    \cup {[EmptyPaymentData EXCEPT !.paymentType = "upi", !.upiId = i, !.upiName = n,
                                   !.upiAmount = a] :
            i \in UpiIdInputs, n \in NameInputs(maxName), a \in AmountInputs}
    \cup {[EmptyPaymentData EXCEPT !.paymentType = "iban", !.ibanCode = c, !.ibanName = n,
                                   !.ibanAmount = a] :
            c \in IbanCodeInputs, n \in NameInputs(maxName), a \in AmountInputs}
    \cup {[EmptyPaymentData EXCEPT !.paymentType = "url", !.paymentUrl = u] :
            u \in PaymentUrlInputs}

----------------------------------------------------------------------------
(* Phone: src/src/scripts/components/sms-qr-generator.js (formatPhoneNumber;
   src/src/scripts/components/phone-qr-generator.js holds the same text) *)

\* phone.replace(/[^\d+]/g, '')
RECURSIVE KeepDigitsAndPlus(_)
KeepDigitsAndPlus(s) ==
    IF s = <<>> THEN <<>>
    ELSE (IF Head(s) \in Digit \cup {"+"} THEN <<Head(s)>> ELSE <<>>)
         \o KeepDigitsAndPlus(Tail(s))

FormatAlwaysPrefixes(number) ==
    IF number = <<>> THEN <<>>
    ELSE IF Len(KeepDigitsAndPlus(number)) = 10 THEN <<"+", "1">> \o KeepDigitsAndPlus(number)
    ELSE <<"+">> \o KeepDigitsAndPlus(number)

formatPhoneNumber(number) ==
    IF number = <<>> THEN <<>>
    ELSE IF ~StartsWith(KeepDigitsAndPlus(number), <<"+">>)
         THEN IF Len(KeepDigitsAndPlus(number)) = 10
              THEN <<"+", "1">> \o KeepDigitsAndPlus(number)
              ELSE IF Len(KeepDigitsAndPlus(number)) = 11
                      /\ StartsWith(KeepDigitsAndPlus(number), <<"1">>)
                   THEN <<"+">> \o KeepDigitsAndPlus(number)
              ELSE <<"+">> \o KeepDigitsAndPlus(number)
    ELSE KeepDigitsAndPlus(number)

\* formatPhoneNumber applied to the raw phone string.
FormatCall ==
    /\ pc = "ready"
    /\ pc' = "formatted"
    /\ \E formatted \in {formatPhoneNumber(phone)} : cleanPhone' = formatted
    /\ UNCHANGED <<phone, reformatted>>

\* formatPhoneNumber applied to the number it returned.
ReformatCall ==
    /\ pc = "formatted"
    /\ pc' = "done"
    /\ \E formatted \in {formatPhoneNumber(cleanPhone)} : reformatted' = formatted
    /\ UNCHANGED <<phone, cleanPhone>>

\* Phone inputs: every string of up to MaxPhoneLen characters over a small
\* alphabet, and the first digits of a long number behind a prefix, bare or
\* punctuated.
PhoneChars == {"5", "1", "+", "-", " "}
PhoneDigits ==
    <<"5", "5", "5", "1", "2", "3", "4", "5", "6", "7", "8", "9", "0", "1", "2", "3", "4", "5">>
PhonePrefixes == {<<>>, <<"+">>, <<"1">>, <<"+", "1">>, <<"+", "4", "4">>, <<"(">>, <<"1", "-">>}
FiveFive == <<"5", "5", "5", "1", "2", "3", "4", "5", "6", "7">>

RECURSIVE Punctuated(_)
Punctuated(s) ==
    IF Len(s) <= 3 THEN s ELSE SubSeq(s, 1, 3) \o <<"-">> \o Punctuated(SubSeq(s, 4, Len(s)))

PhoneInputs ==
    Strings(PhoneChars, MaxPhoneLen)
    \cup {p \o SubSeq(PhoneDigits, 1, n) : p \in PhonePrefixes, n \in 0..MaxPhoneDigits}
    \cup {p \o Punctuated(SubSeq(PhoneDigits, 1, n)) :
            p \in PhonePrefixes, n \in 0..MaxPhoneDigits}

----------------------------------------------------------------------------
(* Messaging: src/src/scripts/components/sms-qr-generator.js and
   src/src/scripts/components/phone-qr-generator.js *)

\* /^\d+$/.test(s)
IsDigitString(s) == s # <<>> /\ AllIn(s, Digit)

ValidatePhoneAnyLength(number) ==
    IF number = <<>> THEN "Phone number is required"
    ELSE IF KeepDigitsAndPlus(number) = <<>> THEN "Please enter a valid phone number"
    ELSE IF StartsWith(KeepDigitsAndPlus(number), <<"+">>)
         THEN IF ~IsDigitString(Tail(KeepDigitsAndPlus(number)))
              THEN "Phone number can only contain digits and + symbol"
              ELSE ""
    ELSE IF ~IsDigitString(KeepDigitsAndPlus(number))
         THEN "Phone number can only contain digits"
    ELSE ""

\* validatePhoneNumber (the same text in both generators): the error, "" when valid.
validatePhoneNumber(number) ==
    IF number = <<>> THEN "Phone number is required"
    ELSE IF KeepDigitsAndPlus(number) = <<>> THEN "Please enter a valid phone number"
    ELSE IF StartsWith(KeepDigitsAndPlus(number), <<"+">>)
         THEN IF Len(Tail(KeepDigitsAndPlus(number))) < 7
                 \/ Len(Tail(KeepDigitsAndPlus(number))) > 15
              THEN "International phone number must be 7-15 digits after country code"
              ELSE IF ~IsDigitString(Tail(KeepDigitsAndPlus(number)))
                   THEN "Phone number can only contain digits and + symbol"
              ELSE ""
    ELSE IF Len(KeepDigitsAndPlus(number)) < 7 \/ Len(KeepDigitsAndPlus(number)) > 15
         THEN "Phone number must be 7-15 digits long"
    ELSE IF ~IsDigitString(KeepDigitsAndPlus(number))
         THEN "Phone number can only contain digits"
    ELSE ""

\* validateSMSData: the error, "" when valid.
validateSMSData(data) ==
    IF data.platform = "" THEN "Platform is required"
    ELSE IF data.platform \notin {"sms", "whatsapp"} THEN "Invalid platform selected"
    ELSE IF data.phone = <<>> \/ Trim(data.phone) = <<>> THEN "Phone number is required"
    ELSE IF validatePhoneNumber(data.phone) # "" THEN validatePhoneNumber(data.phone)
    ELSE IF data.message # <<>> /\ Len(data.message) > 160
         THEN "Message cannot exceed 160 characters"
    ELSE ""

\* validatePhoneData: the error, "" when valid.
validatePhoneData(data) ==
    IF data.platform = "" THEN "Platform is required"
    ELSE IF data.platform \notin {"phone", "whatsapp"} THEN "Invalid platform selected"
    ELSE IF data.phone = <<>> \/ Trim(data.phone) = <<>> THEN "Phone number is required"
    ELSE IF validatePhoneNumber(data.phone) # "" THEN validatePhoneNumber(data.phone)
    ELSE IF data.displayName # <<>> /\ Len(data.displayName) > 50
         THEN "Display name cannot exceed 50 characters"
    ELSE ""

\* cleanPhone.startsWith('+') ? cleanPhone.substring(1) : cleanPhone
whatsappPhone(clean) == IF StartsWith(clean, <<"+">>) THEN Tail(clean) ELSE clean

formatSMSString(clean, message) ==
    <<"S", "M", "S", "T", "O", ":">> \o clean \o <<":">> \o encodeURIComponent(message)

\* formatWhatsAppString of the SMS generator.
formatWhatsAppMessage(clean, message) ==
    IF encodeURIComponent(message) # <<>>
    THEN <<"h", "t", "t", "p", "s", ":", "/", "/", "w", "a", ".", "m", "e",
        "/">> \o whatsappPhone(clean) \o <<"?", "t", "e", "x", "t", "=">>
         \o encodeURIComponent(message)
    ELSE <<"h", "t", "t", "p", "s", ":", "/", "/", "w", "a", ".", "m", "e",
        "/">> \o whatsappPhone(clean)

formatMessageString(data) ==
    IF data.platform = "whatsapp"
    THEN formatWhatsAppMessage(formatPhoneNumber(data.phone), data.message)
    ELSE formatSMSString(formatPhoneNumber(data.phone), data.message)

formatTelString(clean) == <<"t", "e", "l", ":">> \o clean

\* formatWhatsAppString of the phone generator.
formatWhatsAppString(clean) == <<"h", "t", "t", "p", "s", ":", "/", "/", "w", "a", ".", "m",
    "e", "/">> \o whatsappPhone(clean)

formatPhoneString(data) ==
    IF data.platform = "whatsapp" THEN formatWhatsAppString(formatPhoneNumber(data.phone))
    ELSE formatTelString(formatPhoneNumber(data.phone))

NoMessagingResult == [success |-> FALSE, error |-> "", payload |-> <<>>]

\* generateSMSQR: validate, format, have the QR library draw (which may fail).
generateSMSQR ==
    /\ pc = "ready"
    /\ pc' = "sms"
    /\ UNCHANGED <<smsData, phoneData, phoneResult>>
    /\ \E error \in {validateSMSData(smsData)} :
         IF error # ""
         THEN smsResult' = [success |-> FALSE, error |-> error, payload |-> <<>>]
         ELSE \E messageString \in {formatMessageString(smsData)} :
              \E rendered \in BOOLEAN :
                smsResult' =
                  IF rendered
                  THEN [success |-> TRUE, error |-> "", payload |-> messageString]
                  ELSE [success |-> FALSE, error |-> "Failed to generate QR code",
                        payload |-> <<>>]

\* generatePhoneQR: validate, format, have the QR library draw (which may fail).
generatePhoneQR ==
    /\ pc = "sms"
    /\ pc' = "done"
    /\ UNCHANGED <<smsData, smsResult, phoneData>>
    /\ \E error \in {validatePhoneData(phoneData)} :
         IF error # ""
         THEN phoneResult' = [success |-> FALSE, error |-> error, payload |-> <<>>]
         ELSE \E phoneString \in {formatPhoneString(phoneData)} :
              \E rendered \in BOOLEAN :
                phoneResult' =
                  IF rendered
                  THEN [success |-> TRUE, error |-> "", payload |-> phoneString]
                  ELSE [success |-> FALSE, error |-> "Failed to generate QR code",
                        payload |-> <<>>]

\* Messaging inputs: short strings over the phone alphabet, the first digits
\* of the long number behind a prefix, bare or punctuated, and the long number
\* with a "+" or a letter in its middle; an empty, a short and an over-long
\* message.
MessagingPhoneInputs(maxDigits) ==
    Strings(PhoneChars, 2)
    \cup {p \o SubSeq(PhoneDigits, 1, n) : p \in PhonePrefixes, n \in 0..maxDigits}
    \cup {p \o Punctuated(SubSeq(PhoneDigits, 1, n)) : p \in PhonePrefixes, n \in 0..maxDigits}
    \cup {p \o SubSeq(PhoneDigits, 1, 3) \o mid \o SubSeq(PhoneDigits, 4, n) :
            p \in {<<>>, <<"+">>}, mid \in {<<"+">>, <<"x">>}, n \in 3..maxDigits}

HiThere == <<"H", "i", " ", "t", "h", "e", "r", "e">>
MessageInputs == {<<>>, HiThere, [i \in 1..161 |-> "a"]}

(* Event: src/unnamed/part_011 (EventQRGenerator) *)

\* A Date whose time value is not a number.
InvalidDate == [nan |-> TRUE, t |-> 0]

\* The year, month, day, hours, minutes and seconds of the time value t
\* (seconds since 1970-01-01T00:00:00Z), as the Date getters compute them.
DateFields(t) ==
    LET z == (t \div 86400) + 719468
        era == z \div 146097
        doe == z - era * 146097
        yoe == (doe - doe \div 1460 + doe \div 36524 - doe \div 146096) \div 365
        doy == doe - (365 * yoe + yoe \div 4 - yoe \div 100)
        mp == (5 * doy + 2) \div 153
        m == IF mp < 10 THEN mp + 3 ELSE mp - 9
    IN  [year |-> yoe + era * 400 + (IF m <= 2 THEN 1 ELSE 0),
         month |-> m,
         day |-> doy - (153 * mp + 2) \div 5 + 1,
         hours |-> (t % 86400) \div 3600,
         minutes |-> (t % 3600) \div 60,
         seconds |-> t % 60]

\* The number of the day y-m-d, counted from 1970-01-01.
DayNumber(y, m, d) ==
    LET yy == IF m <= 2 THEN y - 1 ELSE y
        era == yy \div 400
        yoe == yy - era * 400
        doy == (153 * (IF m > 2 THEN m - 3 ELSE m + 9) + 2) \div 5 + d - 1
    IN  era * 146097 + yoe * 365 + yoe \div 4 - yoe \div 100 + doy - 719468

DaysInMonth(y, m) ==
    IF m = 2 THEN (IF y % 4 = 0 /\ (y % 100 # 0 \/ y % 400 = 0) THEN 29 ELSE 28)
    ELSE IF m \in {4, 6, 9, 11} THEN 30 ELSE 31

\* new Date(s) for a date-only string: YYYY-MM-DD is midnight UTC of that day;
\* a string of another shape, or naming no day of the calendar, has no time
\* value (the engines' fallback parsers are outside the modelled inputs).
NewDate(s) ==
    IF /\ Len(s) = 10
       /\ \A i \in {1, 2, 3, 4, 6, 7, 9, 10} : s[i] \in Digit
       /\ s[5] = "-" /\ s[8] = "-"
    THEN LET y == DigitsToInt(SubSeq(s, 1, 4))
             m == DigitsToInt(SubSeq(s, 6, 7))
             d == DigitsToInt(SubSeq(s, 9, 10))
         IN  IF m \in 1..12 /\ d \in 1..DaysInMonth(y, m)
             THEN [nan |-> FALSE, t |-> DayNumber(y, m, d) * 86400]
             ELSE InvalidDate
    ELSE InvalidDate

\* String(n).padStart(2, '0')
padStart(n) == IF n < 10 THEN <<"0">> \o IntToDigits(n) ELSE IntToDigits(n)

\* toISOString().replace(/[-:]/g, '').split('.')[0] + 'Z' of the time value t.
ISOStamp(t) ==
    LET f == DateFields(t)
    IN  (IF f.year < 1000 THEN <<"0">> ELSE <<>>) \o IntToDigits(f.year)
        \o padStart(f.month) \o padStart(f.day) \o <<"T">>
        \o padStart(f.hours) \o padStart(f.minutes) \o padStart(f.seconds) \o <<"Z">>

\* parseInt(s): the number its leading digits spell, NaN (-1 here) without one.
parseInt(s) == IF DigitsEnd(s, 1) = 0 THEN -1 ELSE DigitsToInt(SubSeq(s, 1, DigitsEnd(s, 1)))

\* dateObj.setHours(hours, minutes, 0, 0) in a zone offset seconds ahead of
\* UTC: the local day of dateObj at that local time.
setHours(dateObj, hours, minutes, offset) ==
    IF dateObj.nan \/ hours < 0 \/ minutes < 0 THEN InvalidDate
    ELSE [nan |-> FALSE,
          t |-> ((dateObj.t + offset) \div 86400) * 86400
                + hours * 3600 + minutes * 60 - offset]

\* What toISOString throws for a Date without a time value.
RangeError == <<"RangeError: Invalid time value">>

\* formatICalDateTime, run in a zone offset seconds ahead of UTC.
formatICalDateTime(date, time, isAllDay, offset) ==
    IF date = <<>> THEN <<>>
    ELSE LET dateObj == NewDate(date)
             pieces == Split(time, ":")
             timed == IF time = <<>> THEN dateObj
                      ELSE setHours(dateObj, parseInt(pieces[1]),
                                    IF Len(pieces) > 1 THEN parseInt(pieces[2]) ELSE -1,
                                    offset)
             local == DateFields(dateObj.t + offset)
         IN  IF isAllDay
             THEN IF dateObj.nan THEN <<"N", "a", "N", "N", "a", "N", "N", "a", "N">>
                  ELSE IntToDigits(local.year) \o padStart(local.month)
                       \o padStart(local.day)
             ELSE IF timed.nan THEN RangeError ELSE ISOStamp(timed.t)

\* The four replaces in another order: backslashes escaped last.
EscapeICalBackslashLast(text) ==
    IF text = <<>> THEN <<>>
    ELSE ReplaceChar(
           ReplaceChar(
             ReplaceChar(
               ReplaceChar(
                 ReplaceChar(text, ";", <<"\\", ";">>),
                 ",", <<"\\", ",">>),
               "\n", <<"\\", "n">>),
             "\\", <<"\\", "\\">>),
           "\r", <<>>)

\* escapeICalText: five global replaces, backslash first.
escapeICalText(text) ==
    IF text = <<>> THEN <<>>
    ELSE ReplaceChar(
           ReplaceChar(
             ReplaceChar(
               ReplaceChar(
                 ReplaceChar(text, "\\", <<"\\", "\\">>),
                 ";", <<"\\", ";">>),
               ",", <<"\\", ",">>),
             "\n", <<"\\", "n">>),
           "\r", <<>>)

\* organizerText.match(/([^<>\s]+@[^<>\s]+)/): the first run of characters
\* other than "<", ">" and white space that holds an "@" between its first
\* and its last character; <<>> when no run does.
emailMatch(organizerText) ==
    LET stop == {"<", ">"} \cup WhiteSpace
        starts == {i \in 1..Len(organizerText) :
                      /\ organizerText[i] \notin stop
                      /\ \E j \in (i + 1)..(RunEndNot(organizerText, i, stop) - 1) :
                            organizerText[j] = "@"}
    IN  IF starts = {} THEN <<>>
        ELSE SubSeq(organizerText, MinOf(starts),
                    RunEndNot(organizerText, MinOf(starts), stop))

\* String.prototype.replace(p, '') for a string p: the first occurrence goes.
RemoveFirst(s, p) ==
    IF ~Includes(s, p) THEN s
    ELSE LET i == MinOf({k \in 1..(Len(s) + 1) : OccursAt(s, p, k)})
         IN  SubSeq(s, 1, i - 1) \o SubSeq(s, i + Len(p), Len(s))

\* The ORGANIZER line of generateICalString ("" without an organizer).
organizerLine(organizerText) ==
    LET email == emailMatch(organizerText)
        name == Trim(RemoveFirst(SelectSeq(organizerText,
                                           LAMBDA c : c \notin {"<", ">", "(", ")"}),
                                 email))
    IN  IF organizerText = <<>> THEN <<>>
        ELSE IF email # <<>>
        THEN IF name # <<>>
             THEN <<"O", "R", "G", "A", "N", "I", "Z", "E", "R", ";", "C", "N",
                 "=">> \o <<"\"">> \o escapeICalText(name) \o <<"\"">> \o <<":", "M", "A", "I",
                 "L", "T", "O", ":">>
                  \o email \o <<"\n">>
             ELSE <<"O", "R", "G", "A", "N", "I", "Z", "E", "R", ":", "M", "A", "I", "L", "T",
                 "O", ":">> \o email \o <<"\n">>
        ELSE <<"O", "R", "G", "A", "N", "I", "Z", "E", "R", ";", "C", "N",
            "=">> \o <<"\"">> \o escapeICalText(organizerText)
             \o <<"\"">> \o <<":", "M", "A", "I", "L", "T", "O", ":", "n", "o", "r", "e", "p",
                 "l", "y", "@", "q", "u", "b", "e", "x", ".", "i", "t">> \o <<"\n">>

\* `event-${Date.now()}@qubex.it` at the clock reading now (whole seconds and
\* the milliseconds within the second).
eventId(now) ==
    <<"e", "v", "e", "n", "t", "-">> \o IntToDigits(now.seconds)
    \o (IF now.ms < 100 THEN <<"0">> ELSE <<>>) \o padStart(now.ms) \o <<"@", "q", "u", "b",
        "e", "x", ".", "i", "t">>

\* A generateICalString that also stamps the SEQUENCE line with the clock.
ICalStringWithClockSequence(data, now, offset) ==
    LET startDateTime == formatICalDateTime(data.startDate, data.startTime, data.allDay, offset)
        endDateTime == formatICalDateTime(data.endDate, data.endTime, data.allDay, offset)
    IN  IF startDateTime = RangeError \/ endDateTime = RangeError THEN RangeError
        ELSE <<"B", "E", "G", "I", "N", ":", "V", "C", "A", "L", "E", "N", "D", "A",
            "R">> \o <<"\n">>
          \o <<"B", "E", "G", "I", "N", ":", "V", "E", "V", "E", "N", "T">> \o <<"\n">>
          \o <<"U", "I", "D", ":">> \o eventId(now) \o <<"\n">>
          \o <<"D", "T", "S", "T", "A", "M", "P", ":">> \o ISOStamp(now.seconds) \o <<"\n">>
          \o <<"S", "U", "M", "M", "A", "R", "Y",
              ":">> \o escapeICalText(data.eventTitle) \o <<"\n">>
          \o <<"D", "T", "S", "T", "A", "R", "T", ":">> \o startDateTime \o <<"\n">>
          \o <<"D", "T", "E", "N", "D", ":">> \o endDateTime \o <<"\n">>
          \o <<"S", "E", "Q", "U", "E", "N", "C", "E", ":">> \o ISOStamp(now.seconds) \o <<"\n">>
          \o <<"C", "R", "E", "A", "T", "E", "D", ":">> \o ISOStamp(now.seconds) \o <<"\n">>
          \o <<"L", "A", "S", "T", "-", "M", "O", "D", "I", "F", "I", "E", "D",
              ":">> \o ISOStamp(now.seconds) \o <<"\n">>
          \o <<"E", "N", "D", ":", "V", "E", "V", "E", "N", "T">> \o <<"\n">>
          \o <<"E", "N", "D", ":", "V", "C", "A", "L", "E", "N", "D", "A", "R">>

\* generateICalString at the clock reading now, in a zone offset seconds
\* ahead of UTC; RangeError when a date cannot be formatted.
generateICalString(data, now, offset) ==
    LET timestamp == ISOStamp(now.seconds)
        startDateTime == formatICalDateTime(data.startDate, data.startTime, data.allDay, offset)
        endDateTime == formatICalDateTime(data.endDate, data.endTime, data.allDay, offset)
    IN  IF startDateTime = RangeError \/ endDateTime = RangeError THEN RangeError
        ELSE <<"B", "E", "G", "I", "N", ":", "V", "C", "A", "L", "E", "N", "D", "A",
            "R">> \o <<"\n">>
          \o <<"V", "E", "R", "S", "I", "O", "N", ":", "2", ".", "0">> \o <<"\n">>
          \o <<"P", "R", "O", "D", "I", "D", ":", "-", "/", "/", "Q", "u", "b", "e", "x", " ",
              "T", "o", "o", "l", "s", "/", "/", "E", "v", "e", "n", "t", " ", "Q", "R", " ",
              "G", "e", "n", "e", "r", "a", "t", "o", "r", "/", "/", "E", "N">> \o <<"\n">>
          \o <<"C", "A", "L", "S", "C", "A", "L", "E", ":", "G", "R", "E", "G", "O", "R", "I",
              "A", "N">> \o <<"\n">>
          \o <<"M", "E", "T", "H", "O", "D", ":", "P", "U", "B", "L", "I", "S", "H">> \o <<"\n">>
          \o <<"B", "E", "G", "I", "N", ":", "V", "E", "V", "E", "N", "T">> \o <<"\n">>
          \o <<"U", "I", "D", ":">> \o eventId(now) \o <<"\n">>
          \o <<"D", "T", "S", "T", "A", "M", "P", ":">> \o timestamp \o <<"\n">>
          \o (IF data.eventTitle # <<>>
              THEN <<"S", "U", "M", "M", "A", "R", "Y",
                  ":">> \o escapeICalText(data.eventTitle) \o <<"\n">>
              ELSE <<>>)
          \o (IF data.allDay
              THEN <<"D", "T", "S", "T", "A", "R", "T", ";", "V", "A", "L", "U", "E", "=", "D",
                  "A", "T", "E", ":">> \o startDateTime \o <<"\n">>
                   \o <<"D", "T", "E", "N", "D", ";", "V", "A", "L", "U", "E", "=", "D", "A",
                       "T", "E", ":">> \o endDateTime \o <<"\n">>
              ELSE <<"D", "T", "S", "T", "A", "R", "T", ":">> \o startDateTime \o <<"\n">>
                   \o <<"D", "T", "E", "N", "D", ":">> \o endDateTime \o <<"\n">>)
          \o (IF data.eventDescription # <<>>
              THEN <<"D", "E", "S", "C", "R", "I", "P", "T", "I", "O", "N",
                  ":">> \o escapeICalText(data.eventDescription) \o <<"\n">>
              ELSE <<>>)
          \o (IF data.eventLocation # <<>>
              THEN <<"L", "O", "C", "A", "T", "I", "O", "N",
                  ":">> \o escapeICalText(data.eventLocation) \o <<"\n">>
              ELSE <<>>)
          \o organizerLine(data.eventOrganizer)
          \o (IF data.eventUrl # <<>>
              THEN <<"U", "R", "L", ":">> \o data.eventUrl \o <<"\n">>
              ELSE <<>>)
          \o <<"S", "T", "A", "T", "U", "S", ":", "C", "O", "N", "F", "I", "R", "M", "E",
              "D">> \o <<"\n">>
          \o <<"T", "R", "A", "N", "S", "P", ":", "O", "P", "A", "Q", "U", "E">> \o <<"\n">>
          \o <<"S", "E", "Q", "U", "E", "N", "C", "E", ":", "0">> \o <<"\n">>
          \o <<"C", "R", "E", "A", "T", "E", "D", ":">> \o timestamp \o <<"\n">>
          \o <<"L", "A", "S", "T", "-", "M", "O", "D", "I", "F", "I", "E", "D",
              ":">> \o timestamp \o <<"\n">>
          \o <<"E", "N", "D", ":", "V", "E", "V", "E", "N", "T">> \o <<"\n">>
          \o <<"E", "N", "D", ":", "V", "C", "A", "L", "E", "N", "D", "A", "R">>

\* endDate < startDate on two Dates: false when either has no time value.
DateBefore(a, b) == ~a.nan /\ ~b.nan /\ a.t < b.t

\* a <= b on two time-of-day strings (digits sort before ":" in code units).
RECURSIVE NotAfter(_, _)
NotAfter(a, b) ==
    LET code(c) == IF c \in Digit THEN DigitVal(c) ELSE 10
    IN  IF a = <<>> THEN TRUE
        ELSE IF b = <<>> THEN FALSE
        ELSE IF Head(a) # Head(b) THEN code(Head(a)) < code(Head(b))
        ELSE NotAfter(Tail(a), Tail(b))

\* The same-day test both validations make.
EndTimeNotAfterStart(data) ==
    /\ data.startDate = data.endDate
    /\ data.startTime # <<>> /\ data.endTime # <<>>
    /\ ~data.allDay
    /\ NotAfter(data.endTime, data.startTime)

\* The checks of generateEventQR without the comparison of the two dates.
EventErrorWithoutDateOrder(data, hasCanvas) ==
    IF ~hasCanvas THEN "QR generator not initialized"
    ELSE IF data.eventTitle = <<>> THEN "Event title is required"
    ELSE IF data.startDate = <<>> THEN "Start date is required"
    ELSE IF data.endDate = <<>> THEN "End date is required"
    ELSE IF EndTimeNotAfterStart(data) THEN "End time must be after start time"
    ELSE ""

\* The message generateEventQR throws before encoding, "" when it throws none.
eventError(data, hasCanvas) ==
    IF ~hasCanvas THEN "QR generator not initialized"
    ELSE IF data.eventTitle = <<>> THEN "Event title is required"
    ELSE IF data.startDate = <<>> THEN "Start date is required"
    ELSE IF data.endDate = <<>> THEN "End date is required"
    ELSE IF DateBefore(NewDate(data.endDate), NewDate(data.startDate))
         THEN "End date cannot be before start date"
    ELSE IF EndTimeNotAfterStart(data) THEN "End time must be after start time"
    ELSE ""

NoEventResult == [success |-> FALSE, error |-> "", icalString |-> <<>>]

\* generateEventQR: the result it resolves to; every call reads the clock,
\* which has moved on by elapsed milliseconds since the call before.
generateEventQR ==
    /\ pc \in {"validated", "generated"}
    /\ Len(issued) < MaxCalls
    /\ \E elapsed \in 0..MaxElapsed :
         \E now \in {[seconds |-> clock.seconds + (clock.ms + elapsed) \div 1000,
                      ms |-> (clock.ms + elapsed) % 1000]} :
         \E ical \in {IF eventError(eventData, eventCanvas) = ""
                      THEN generateICalString(eventData, now, timeZone * 3600)
                      ELSE <<>>} :
           /\ clock' = now
           /\ eventResult' =
                IF eventError(eventData, eventCanvas) # ""
                THEN [success |-> FALSE, error |-> eventError(eventData, eventCanvas),
                      icalString |-> <<>>]
                ELSE IF ical = RangeError
                THEN [success |-> FALSE, error |-> "Invalid time value",
                      icalString |-> <<>>]
                ELSE [success |-> TRUE, error |-> "", icalString |-> ical]
           /\ issued' = Append(issued, eventResult')
    /\ pc' = "generated"
    /\ UNCHANGED <<eventData, eventCanvas, timeZone, eventValidation, icalText, icalEscaped>>

\* isValidURL
isValidURL(url) == ~UrlThrows(url)

\* validateEventData: the errors it collects.
validateEventData(data) ==
    (IF data.eventTitle = <<>> THEN <<"Event title is required">> ELSE <<>>)
    \o (IF data.startDate = <<>> THEN <<"Start date is required">> ELSE <<>>)
    \o (IF data.endDate = <<>> THEN <<"End date is required">> ELSE <<>>)
    \o (IF ~data.allDay /\ data.startTime = <<>>
        THEN <<"Start time is required for timed events">> ELSE <<>>)
    \o (IF ~data.allDay /\ data.endTime = <<>>
        THEN <<"End time is required for timed events">> ELSE <<>>)
    \o (IF /\ data.startDate # <<>> /\ data.endDate # <<>>
           /\ DateBefore(NewDate(data.endDate), NewDate(data.startDate))
        THEN <<"End date cannot be before start date">> ELSE <<>>)
    \o (IF data.startDate # <<>> /\ data.endDate # <<>> /\ EndTimeNotAfterStart(data)
        THEN <<"End time must be after start time">> ELSE <<>>)
    \o (IF data.eventUrl # <<>> /\ ~isValidURL(data.eventUrl)
        THEN <<"Please enter a valid event URL">> ELSE <<>>)

\* A call of validateEventData on the entered event.
ValidateEventCall ==
    /\ pc = "ready"
    /\ eventValidation' = [isValid |-> validateEventData(eventData) = <<>>,
                           errors |-> validateEventData(eventData)]
    /\ pc' = "validated"
    /\ UNCHANGED <<eventData, eventCanvas, timeZone, clock, eventResult, issued,
                   icalText, icalEscaped>>

\* A call of escapeICalText.
EscapeICalCall ==
    /\ pc = "ready"
    /\ icalEscaped' = escapeICalText(icalText)
    /\ pc' = "done"
    /\ UNCHANGED <<eventData, eventCanvas, timeZone, clock, eventValidation, eventResult,
                   issued, icalText>>

\* Form entries: dates as a date field gives them ("" when left empty) and one
\* string that is no date, times as a time field gives them.
EmptyEventData ==
    [eventTitle |-> <<>>, startDate |-> <<>>, endDate |-> <<>>, startTime |-> <<>>,
     endTime |-> <<>>, allDay |-> FALSE, eventDescription |-> <<>>,
     eventLocation |-> <<>>, eventOrganizer |-> <<>>, eventUrl |-> <<>>]

EventInputs ==
    {[EmptyEventData EXCEPT !.eventTitle = x.title, !.startDate = x.startDate,
                            !.endDate = x.endDate, !.startTime = x.startTime,
                            !.endTime = x.endTime, !.allDay = x.allDay,
                            !.eventDescription = x.extra.description,
                            !.eventLocation = x.extra.location,
                            !.eventOrganizer = x.extra.organizer,
                            !.eventUrl = x.extra.url] :
        x \in [title : {<<>>, <<"L", "a", "u", "n", "c", "h", ";", " ", "v", "2">>},
               startDate : {<<>>, <<"2", "0", "2", "5", "-", "0", "6", "-", "0", "1">>, <<"2",
                   "0", "2", "5", "-", "0", "1", "-", "0", "1">>, <<"s", "o", "o", "n">>},
               endDate : {<<>>, <<"2", "0", "2", "5", "-", "0", "6", "-", "0", "1">>, <<"2",
                   "0", "2", "5", "-", "0", "5", "-", "3", "1">>, <<"2", "0", "2", "5", "-",
                   "0", "1", "-", "0", "1">>},
               startTime : {<<>>, <<"0", "9", ":", "0", "0">>, <<"1", "8", ":", "3", "0">>},
               endTime : {<<>>, <<"0", "9", ":", "0", "0">>, <<"1", "0", ":", "1", "5">>},
               allDay : BOOLEAN,
               extra : {[description |-> <<>>, location |-> <<>>, organizer |-> <<>>,
                         url |-> <<>>],
                        [description |-> <<"a", ",", "\n", "b">>, location |-> <<"H", "a", "l",
                            "l", " ", "1">>,
                         organizer |-> <<"J", "a", "n", "e", " ", "D", "o", "e", " ", "<", "j",
                             "a", "n", "e", "@", "q", "u", "b", "e", "x", ".", "i", "t", ">">>,
                         url |-> <<"h", "t", "t", "p", "s", ":", "/", "/", "q", "u", "b", "e",
                             "x", ".", "i", "t", "/", "l", "a", "u", "n", "c", "h">>],
                        [description |-> <<>>, location |-> <<>>,
                         organizer |-> <<"T", "e", "a", "m">>, url |-> <<"l", "a", "u", "n",
                             "c", "h">>]}]}

\* Hours the local zone is ahead of UTC.
TimeZones == {-5, 0, 2}

\* The clock at the first call: 2025-06-01T11:59:59.999Z.
FirstClock == [seconds |-> 1748779199, ms |-> 999]

ICalChars == {"a", "n", "\\", ";", ",", "\n", "\r"}

(* WiFi form: src/src/scripts/components/wifi-form-validator.js *)

\* validateSSID without its test for line breaks.
ValidateSSIDKeepsBreaks(value) ==
    IF value = <<>> \/ Len(Trim(value)) = 0
    THEN [isValid |-> FALSE, error |-> "Network name is required", normalizedValue |-> <<>>]
    ELSE IF Len(Trim(value)) > 32
    THEN [isValid |-> FALSE, error |-> "Network name cannot exceed 32 characters",
          normalizedValue |-> <<>>]
    ELSE [isValid |-> TRUE, error |-> "", normalizedValue |-> Trim(value)]

\* validateSSID
validateSSID(value) ==
    IF value = <<>> \/ Len(Trim(value)) = 0
    THEN [isValid |-> FALSE, error |-> "Network name is required", normalizedValue |-> <<>>]
    ELSE IF Len(Trim(value)) > 32
    THEN [isValid |-> FALSE, error |-> "Network name cannot exceed 32 characters",
          normalizedValue |-> <<>>]
    ELSE IF Includes(Trim(value), <<"\n">>) \/ Includes(Trim(value), <<"\r">>)
    THEN [isValid |-> FALSE, error |-> "Network name cannot contain line breaks",
          normalizedValue |-> <<>>]
    ELSE [isValid |-> TRUE, error |-> "", normalizedValue |-> Trim(value)]

\* validatePassword, with the value of #security-select as securityType.
validatePassword(value, securityType) ==
    IF securityType = "nopass"
    THEN [isValid |-> TRUE, error |-> "", normalizedValue |-> <<>>]
    ELSE IF Len(value) = 0
    THEN [isValid |-> FALSE, error |-> "Password is required for secured networks",
          normalizedValue |-> <<>>]
    ELSE IF securityType \in {"WPA", "WPA3"} /\ Len(value) < 8
    THEN [isValid |-> FALSE, error |-> "WPA password must be at least 8 characters",
          normalizedValue |-> <<>>]
    ELSE IF securityType \in {"WPA", "WPA3"} /\ Len(value) > 63
    THEN [isValid |-> FALSE, error |-> "WPA password cannot exceed 63 characters",
          normalizedValue |-> <<>>]
    ELSE IF securityType = "WEP"
            /\ ~(Len(value) = 5 \/ Len(value) = 13
                 \/ (Len(value) = 10 /\ IsHexString(value))
                 \/ (Len(value) = 26 /\ IsHexString(value)))
    THEN [isValid |-> FALSE,
          error |-> "WEP password must be 5 or 13 characters, or 10/26 hex digits",
          normalizedValue |-> <<>>]
    ELSE IF securityType \notin {"WPA", "WPA3", "WEP"}
    THEN [isValid |-> FALSE, error |-> "Invalid security type", normalizedValue |-> <<>>]
    ELSE [isValid |-> TRUE, error |-> "", normalizedValue |-> value]

\* validateSecurity
validateSecurity(value) == value \in {"WPA", "WPA3", "WEP", "nopass"}

\* validateField's fieldData.value = result.normalizedValue || value
fieldValue(result, value) ==
    IF result.normalizedValue # <<>> THEN result.normalizedValue ELSE value

\* The result without data (the fields hold null until they are validated).
NoFields == [ssid |-> null, password |-> null, security |-> ""]
NoFormData == [isValid |-> FALSE, error |-> "", data |-> NoFields]

\* getFormData: validateAll over the three fields, then the stored values.
getFormData(fields) ==
    IF /\ validateSSID(fields.ssid).isValid
       /\ validatePassword(fields.password, fields.security).isValid
       /\ validateSecurity(fields.security)
    THEN [isValid |-> TRUE, error |-> "",
          data |-> [ssid |-> fieldValue(validateSSID(fields.ssid), fields.ssid),
                    password |-> fieldValue(validatePassword(fields.password,
                                                             fields.security),
                                            fields.password),
                    security |-> fields.security]]
    ELSE [isValid |-> FALSE, error |-> "Form validation failed", data |-> NoFields]

\* The argument of the generator before any form was submitted.
NoWiFiData == [ssid |-> null, password |-> null, security |-> "", hidden |-> FALSE]

\* handleFormSubmit of the WiFi page (src/unnamed/part_005): the form data,
\* and when it is valid the generator called with it (the data has no hidden
\* key, which formatWiFiString reads as false).
handleWiFiFormSubmit ==
    /\ pc = "ready"
    /\ \E formResult \in {getFormData(wifiFields)} :
         /\ wifiForm' = formResult
         /\ IF ~formResult.isValid
            THEN UNCHANGED <<wifiData, wifiResult>>
            ELSE \E submitted \in {[ssid |-> formResult.data.ssid,
                                    password |-> formResult.data.password,
                                    security |-> formResult.data.security,
                                    hidden |-> FALSE]} :
                   /\ wifiData' = submitted
                   /\ IF validateWiFiData(submitted) # ""
                      THEN wifiResult' = [success |-> FALSE,
                                          error |-> validateWiFiData(submitted),
                                          wifiString |-> <<>>]
                      ELSE \E rendered \in BOOLEAN :
                             wifiResult' =
                               IF rendered
                               THEN [success |-> TRUE, error |-> "",
                                     wifiString |-> formatWiFiString(submitted)]
                               ELSE [success |-> FALSE,
                                     error |-> "Failed to generate WiFi QR code",
                                     wifiString |-> <<>>]
    /\ pc' = "done"
    /\ UNCHANGED <<str, escaped, wifiFields>>

\* s repeated to n characters.
Repeated(s, n) == [i \in 1..n |-> s[((i - 1) % Len(s)) + 1]]

\* Network names around the limits: empty, blank, 32 and 33 characters, 32
\* characters and a trailing space, with a line feed or a carriage return.
FormSsidInputs ==
    {<<>>, <<" ">>, Home, Repeated(Home, 32), Repeated(Home, 33),
     Repeated(Home, 32) \o <<" ">>, <<"a", "\n", "b">>, <<"a", "\r", "b">>,
     Home \o <<"\n">>}

\* Passwords of the lengths the rules name: 0, 4, 5, 7, 8, 10, 13, 26, 63 and
\* 64 characters, the 5, 10 and 26 character ones with and without a
\* character outside ASCII or outside the hexadecimal digits.
FormPasswordInputs ==
    {<<>>, <<"p", "a", "s", "s">>, <<"a", "b", "c", "d", "e">>, <<"p", "ä", "s", "s",
        "w">>, <<"p", "a", "s", "s", "w", "o", "r">>, <<"p", "a", "s", "s", "w", "o", "r", "d">>,
     <<"0", "1", "2", "3", "4", "5", "6", "7", "8", "9">>, <<"p", "a", "s", "s", "w", "o", "r",
         "d", "x", "y">>, <<"p", "a", "s", "s", "w", "o", "r", "d", "x", "y", "1", "2", "3">>,
     Repeated(<<"0", "1", "2", "3", "4", "5", "6", "7", "8", "9", "a", "b", "c", "d", "e", "f",
         "A", "B", "C", "D", "E", "F">>, 26), Repeated(<<"p", "a", "s", "s", "w", "o", "r", "d",
         "x", "y">>, 26),
     Repeated(<<"p", "a", "s", "s", "w", "o", "r", "d", "x", "y">>, 63), Repeated(<<"p", "a",
         "s", "s", "w", "o", "r", "d", "x", "y">>, 64)}

(* Email: src/unnamed/part_010 (EmailQRGenerator), src/unnamed/part_017
   (EmailQRGeneratorApp) and src/src/scripts/components/email-form-validator.js *)

\* /^[^\s@]+@[^\s@]+\.[^\s@]+$/.test(s): no white space, one "@" with
\* something before it, and after it a "." with something on both sides.
emailRegex(s) ==
    /\ \A i \in 1..Len(s) : s[i] \notin WhiteSpace
    /\ Cardinality({i \in 1..Len(s) : s[i] = "@"}) = 1
    /\ LET at == CHOOSE i \in 1..Len(s) : s[i] = "@"
       IN  /\ at > 1
           /\ \E k \in (at + 2)..(Len(s) - 1) : s[k] = "."

\* validateRecipient without its three length tests.
ValidateRecipientAnyLength(recipient) ==
    /\ recipient # <<>>
    /\ emailRegex(recipient)
    /\ ~Includes(recipient, <<".", ".">>)
    /\ recipient[1] # "." /\ recipient[Len(recipient)] # "."

\* validateRecipient of the form validator: TRUE when the address is valid.
validateRecipient(recipient) ==
    /\ recipient # <<>>
    /\ Len(recipient) <= 254
    /\ emailRegex(recipient)
    /\ ~Includes(recipient, <<".", ".">>)
    /\ recipient[1] # "." /\ recipient[Len(recipient)] # "."
    /\ Len(Split(recipient, "@")[1]) <= 64
    /\ Len(Split(recipient, "@")[2]) <= 253

\* validateSubject
validateSubject(subject) ==
    \/ subject = <<>>
    \/ /\ Len(subject) <= 100
       /\ \A i \in 1..Len(subject) : subject[i] \notin {"\r", "\n", "\t"}

\* validateBody
validateBody(body) == body = <<>> \/ Len(body) <= 500

\* validateEmailData of the generator: the message it throws, "" when none.
validateEmailData(emailData) ==
    IF emailData.recipient = <<>> \/ Trim(emailData.recipient) = <<>>
    THEN "Recipient email is required"
    ELSE IF ~emailRegex(Trim(emailData.recipient)) THEN "Invalid recipient email format"
    ELSE IF Len(emailData.subject) > 100 THEN "Subject is too long (maximum 100 characters)"
    ELSE IF Len(emailData.body) > 500
    THEN "Email body is too long (maximum 500 characters)"
    ELSE ""

\* createMailtoUrl
createMailtoUrl(emailData) ==
    LET subjectParam == IF Trim(emailData.subject) # <<>>
                        THEN << <<"s", "u", "b", "j", "e", "c", "t",
                            "=">> \o encodeURIComponent(Trim(emailData.subject)) >>
                        ELSE <<>>
        bodyParam == IF Trim(emailData.body) # <<>>
                     THEN << <<"b", "o", "d", "y",
                         "=">> \o encodeURIComponent(Trim(emailData.body)) >>
                     ELSE <<>>
        params == subjectParam \o bodyParam
    IN  <<"m", "a", "i", "l", "t", "o", ":">> \o encodeURIComponent(emailData.recipient)
        \o (IF Len(params) = 0 THEN <<>>
            ELSE IF Len(params) = 1 THEN <<"?">> \o params[1]
            ELSE <<"?">> \o params[1] \o <<"&">> \o params[2])

NoEmailData == [recipient |-> null, subject |-> null, body |-> null]
NoEmailResult == [success |-> FALSE, error |-> "", mailtoUrl |-> <<>>]

\* handleFormSubmit of the email page: the three fields trimmed and
\* validated, then generateEmailQR (validateEmailData, createMailtoUrl and the
\* renderer, whose failure is reported like a failed validation).
handleEmailFormSubmit ==
    /\ pc = "ready"
    /\ \E submitted \in {[recipient |-> Trim(emailFields.recipient),
                          subject |-> Trim(emailFields.subject),
                          body |-> Trim(emailFields.body)]} :
         IF ~(/\ validateRecipient(submitted.recipient)
              /\ validateSubject(submitted.subject)
              /\ validateBody(submitted.body))
         THEN UNCHANGED <<currentEmailData, emailResult>>
         ELSE /\ currentEmailData' = submitted
              /\ \E rendered \in BOOLEAN :
                   emailResult' =
                     IF validateEmailData(submitted) = "" /\ rendered
                     THEN [success |-> TRUE, error |-> "",
                           mailtoUrl |-> createMailtoUrl(submitted)]
                     ELSE [success |-> FALSE,
                           error |-> "Failed to generate email QR code. Please try again.",
                           mailtoUrl |-> <<>>]
    /\ pc' = "done"
    /\ UNCHANGED emailFields

\* Addresses around the limits: the longest local part and one more, 254 and
\* 255 characters in all, and the shapes the validator refuses.
LongLocal(n) == Repeated(<<"j", "a", "n", "e">>, n)
LongDomain(n) == Repeated(<<"q", "u", "b", "e", "x">>, n) \o <<".", "i", "t">>

RecipientInputs ==
    {<<>>, <<"j", "a", "n", "e", "@", "q", "u", "b", "e", "x", ".", "i", "t">>, <<" ", "j", "a",
        "n", "e", "@", "q", "u", "b", "e", "x", ".", "i", "t", " ">>, <<"j", "a", "n", "e", "@",
        "q", "u", "b", "e", "x">>, <<"j", "a", "n", "e", " ", "d", "o", "e", "@", "q", "u", "b",
        "e", "x", ".", "i", "t">>,
     <<"j", "a", "n", "e", "@", "@", "q", "u", "b", "e", "x", ".", "i", "t">>, <<"j", "a", "n",
         "e", ".", "q", "u", "b", "e", "x", ".", "i", "t">>, <<"@", "q", "u", "b", "e", "x",
         ".", "i", "t">>, <<"j", "a", "n", "e", "@", ".", "i", "t">>, <<"j", "a", "n", "e", "@",
         "q", "u", "b", "e", "x", ".">>,
     <<"j", "a", ".", ".", "n", "e", "@", "q", "u", "b", "e", "x", ".", "i", "t">>, <<".", "j",
         "a", "n", "e", "@", "q", "u", "b", "e", "x", ".", "i", "t">>,
     LongLocal(64) \o <<"@", "q", "u", "b", "e", "x", ".", "i", "t">>, LongLocal(65) \o <<"@",
         "q", "u", "b", "e", "x", ".", "i", "t">>,
     LongLocal(64) \o <<"@">> \o LongDomain(186), LongLocal(64) \o <<"@">> \o LongDomain(187),
     <<"j", "@">> \o LongDomain(250), <<"j", "@">> \o LongDomain(251)}

SubjectInputs ==
    {<<>>, <<"H", "e", "l", "l", "o", " ", "t", "h", "e", "r", "e">>, <<"a", "\t",
        "b">>, Repeated(<<"s", "u", "b", "j", "e", "c", "t", " ">>, 100) \o <<"!">>,
     Repeated(<<"s", "u", "b", "j", "e", "c", "t", ";">>, 100), Repeated(<<"s", "u", "b", "j",
         "e", "c", "t", ";">>, 101)}

BodyInputs ==
    {<<>>, <<"H", "i", ",", "\n", "J", "a", "n", "e">>, Repeated(<<"b", "o", "d", "y",
        " ">>, 500) \o <<"!">>,
     Repeated(<<"b", "o", "d", "y", ".">>, 500), Repeated(<<"b", "o", "d", "y", ".">>, 501)}

(* Text: src/unnamed/part_012 (TextFormValidator),
   src/src/scripts/components/text-qr-generator.js (TextQRGenerator) and
   src/src/scripts/text-main.js (the text page) *)

maxLength == 2000
minLength == 1

\* validateText: the text is refused when, trimmed, it is empty or longer
\* than maxLength. The warnings of checkScanningOptimization never change
\* isValid and are left out; the "too long" message is kept without the
\* length it ends with.
validateText(text) ==
    IF Len(Trim(text)) < minLength
    THEN [isValid |-> FALSE, error |-> "Please enter some text to generate a QR code"]
    ELSE IF Len(Trim(text)) > maxLength
    THEN [isValid |-> FALSE, error |-> "Text is too long. Maximum 2000 characters allowed"]
    ELSE [isValid |-> TRUE, error |-> ""]

\* .replace(/\r\n/g, '\n').replace(/\r/g, '\n')
RECURSIVE ReplaceCRLF(_)
ReplaceCRLF(s) ==
    IF s = <<>> THEN <<>>
    ELSE IF Len(s) >= 2 /\ s[1] = "\r" /\ s[2] = "\n"
    THEN <<"\n">> \o ReplaceCRLF(SubSeq(s, 3, Len(s)))
    ELSE <<Head(s)>> \o ReplaceCRLF(Tail(s))

NormalizeLineEndings(s) == ReplaceChar(ReplaceCRLF(s), "\r", <<"\n">>)

\* The number of line feeds s starts with.
RECURSIVE LeadingBreaks(_)
LeadingBreaks(s) ==
    IF s # <<>> /\ Head(s) = "\n" THEN 1 + LeadingBreaks(Tail(s)) ELSE 0

\* .replace(/\n{3,}/g, '\n\n'): every maximal run of three or more line
\* feeds becomes two.
RECURSIVE CollapseLineBreaks(_)
CollapseLineBreaks(s) ==
    IF s = <<>> THEN <<>>
    ELSE IF LeadingBreaks(s) >= 3
    THEN <<"\n", "\n">> \o CollapseLineBreaks(SubSeq(s, LeadingBreaks(s) + 1, Len(s)))
    ELSE <<Head(s)>> \o CollapseLineBreaks(Tail(s))

\* Array.prototype.join(c)
RECURSIVE Join(_, _)
Join(pieces, c) ==
    IF Len(pieces) = 0 THEN <<>>
    ELSE IF Len(pieces) = 1 THEN pieces[1]
    ELSE pieces[1] \o <<c>> \o Join(Tail(pieces), c)

\* .split('\n').map(line => line.trimEnd()).join('\n')
TrimLineEnds(s) ==
    Join([i \in 1..Len(Split(s, "\n")) |-> TrimEnd(Split(s, "\n")[i])], "\n")

\* .replace(/^\n+|\n+$/g, '')
RECURSIVE DropTrailingBreaks(_)
DropTrailingBreaks(s) ==
    IF s # <<>> /\ s[Len(s)] = "\n" THEN DropTrailingBreaks(SubSeq(s, 1, Len(s) - 1)) ELSE s

StripOuterBreaks(s) == DropTrailingBreaks(SubSeq(s, LeadingBreaks(s) + 1, Len(s)))

\* formatText of the form validator.
formatText(text) ==
    IF text = <<>> THEN <<>>
    ELSE StripOuterBreaks(TrimLineEnds(CollapseLineBreaks(NormalizeLineEndings(Trim(text)))))

\* formatTextForQR of the generator: formatText without its last step.
formatTextForQR(text) ==
    IF text = <<>> THEN <<>>
    ELSE TrimLineEnds(CollapseLineBreaks(NormalizeLineEndings(Trim(text))))

\* validateAndFormat: a refused text is handed back as it came (and has no
\* wasFormatted field: FALSE here).
validateAndFormat(text) ==
    IF ~validateText(text).isValid
    THEN [isValid |-> FALSE, error |-> validateText(text).error,
          formattedText |-> text, wasFormatted |-> FALSE]
    ELSE [isValid |-> TRUE, error |-> "",
          formattedText |-> formatText(text), wasFormatted |-> formatText(text) # text]

NoTextValidation ==
    [isValid |-> FALSE, error |-> "", formattedText |-> <<>>, wasFormatted |-> FALSE]

formatTextCall ==
    /\ pc = "ready"
    /\ textFormatted' = formatText(textInput)
    /\ pc' = "formatted"
    /\ UNCHANGED <<textInput, textForQR, textValidation, currentText, toDataURL, textResult>>

formatTextForQRCall ==
    /\ pc = "ready"
    /\ textForQR' = formatTextForQR(textInput)
    /\ pc' = "formattedForQR"
    /\ UNCHANGED <<textInput, textFormatted, textValidation, currentText, toDataURL, textResult>>

validateAndFormatCall ==
    /\ pc = "ready"
    /\ textValidation' = validateAndFormat(textInput)
    /\ pc' = "validated"
    /\ UNCHANGED <<textInput, textFormatted, textForQR, currentText, toDataURL, textResult>>

\* generateQR up to its call of the renderer: the message it throws ("" when
\* none) and the string it hands to QRCode.toDataURL.
generateQR(text) ==
    IF text = <<>>
    THEN [error |-> "Text content is required and must be a string", qrText |-> <<>>]
    ELSE IF Len(Trim(text)) = 0
    THEN [error |-> "Text content cannot be empty", qrText |-> <<>>]
    ELSE IF Len(Trim(text)) > 2000
    THEN [error |-> "Text content is too long (maximum 2000 characters)", qrText |-> <<>>]
    ELSE [error |-> "", qrText |-> Trim(text)]

NoTextResult == [success |-> FALSE, error |-> ""]

\* handleFormSubmit of the text page: the trimmed value of the text area is
\* validated (validateInput) and given to generateQR; toDataURL records the
\* strings handed to the renderer, which succeeds or throws.
handleTextFormSubmit ==
    /\ pc = "ready"
    /\ \E text \in {Trim(textInput)} :
         IF ~validateText(text).isValid
         THEN UNCHANGED <<currentText, toDataURL, textResult>>
         ELSE /\ currentText' = text
              /\ \E rendered \in BOOLEAN :
                   IF generateQR(text).error # ""
                   THEN /\ UNCHANGED toDataURL
                        /\ textResult' =
                             [success |-> FALSE,
                              error |-> "Failed to generate QR code. Please try again."]
                   ELSE /\ toDataURL' = Append(toDataURL, generateQR(text).qrText)
                        /\ textResult' =
                             IF rendered THEN [success |-> TRUE, error |-> ""]
                             ELSE [success |-> FALSE,
                                   error |-> "Failed to generate QR code. Please try again."]
    /\ pc' = "done"
    /\ UNCHANGED <<textInput, textFormatted, textForQR, textValidation>>

\* Text area values: every string of at most n characters between two
\* letters, every string of fewer than n characters, and one of maxLength + 1
\* letters.
TextChars == {"a", " ", "\n", "\r"}

TextInputs(n) ==
    {<<"a">> \o s \o <<"b">> : s \in Strings(TextChars, n)} \cup Strings(TextChars, n - 1)

LongText == [i \in 1..(maxLength + 1) |-> "a"]

(* The validate and decode calls taken on their own, with arguments a caller
   may pass: src/unnamed/part_010 (validateEmailData),
   src/src/scripts/components/payment-form-validator.js (validatePaymentData)
   and src/src/scripts/components/payment-qr-generator.js (extractPaymentInfo) *)

\* A value that is a number and not a string; null (above) also stands for
\* undefined.
aNumber == <<"number">>
IsString(v) == v \notin {null, aNumber}

\* How a call ended: with a returned value (a success or a failure object)
\* or with an exception.
Returned(kind) == [threw |-> FALSE, kind |-> kind, message |-> ""]
Thrown(message) == [threw |-> TRUE, kind |-> "exception", message |-> message]
NotCalled == [threw |-> FALSE, kind |-> "none", message |-> ""]
TypeError == "TypeError"

\* subject / body as the tests `x && x.length > n` see them: a missing value
\* or a number passes them like the empty string.
LengthTested(v) == IF IsString(v) THEN v ELSE <<>>

\* validateEmailData called directly: `throw new Error(...)` for every
\* refusal, undefined returned otherwise; .trim() of a number is a TypeError.
validateEmailDataCall ==
    /\ pc = "ready"
    /\ outcome' =
         IF ~emailArg.given THEN Thrown("Email data is required")
         ELSE IF emailArg.recipient \in {null, <<>>} THEN Thrown("Recipient email is required")
         ELSE IF emailArg.recipient = aNumber THEN Thrown(TypeError)
         ELSE IF validateEmailData([recipient |-> emailArg.recipient,
                                    subject |-> LengthTested(emailArg.subject),
                                    body |-> LengthTested(emailArg.body)]) # ""
         THEN Thrown(validateEmailData([recipient |-> emailArg.recipient,
                                        subject |-> LengthTested(emailArg.subject),
                                        body |-> LengthTested(emailArg.body)]))
         ELSE Returned("success")
    /\ pc' = "called"
    /\ UNCHANGED <<emailArg, paymentArg, stringArg>>

\* A required field of the selected payment type holds a number: the test
\* `!paymentData[field] || paymentData[field].trim() === ''` calls .trim on it.
NumberInRequired(data) ==
    /\ data.paymentType \in PaymentTypes
    /\ \E i \in 2..Len(validationRules(data.paymentType)) :
         data[validationRules(data.paymentType)[i]] = aNumber

\* validatePaymentData called directly: { isValid, errors } is returned for
\* every object of strings; destructuring null and .trim() of a number are
\* TypeErrors.
validatePaymentDataCall ==
    /\ pc = "ready"
    /\ outcome' =
         IF ~paymentArg.given THEN Thrown(TypeError)
         ELSE IF NumberInRequired(paymentArg.data) THEN Thrown(TypeError)
         ELSE IF validatePaymentData(paymentArg.data) = <<>> THEN Returned("success")
         ELSE Returned("failure")
    /\ pc' = "called"
    /\ UNCHANGED <<emailArg, paymentArg, stringArg>>

\* extractPaymentInfo called directly: an object is returned for every
\* string ({ type: 'unknown', raw } when nothing is recognised);
\* paymentString.startsWith of null or of a number is a TypeError.
extractPaymentInfoCall ==
    /\ pc = "ready"
    /\ outcome' =
         IF ~IsString(stringArg) THEN Thrown(TypeError)
         ELSE IF extractPaymentInfo(stringArg).type = "unknown" THEN Returned("failure")
         ELSE Returned("success")
    /\ pc' = "called"
    /\ UNCHANGED <<emailArg, paymentArg, stringArg>>

\* Arguments: the object missing, fields missing, empty, of the wrong type,
\* malformed and well-formed.
NoEmailArg == [given |-> FALSE, recipient |-> null, subject |-> null, body |-> null]

EmailArgs ==
    {NoEmailArg}
    \cup [given : {TRUE},
          recipient : {null, aNumber, <<>>, <<" ">>, <<"j", "a", "n", "e", "@",
              "q", "u", "b", "e", "x", ".", "i", "t">>, <<"j", "a", "n", "e">>},
          subject : {null, aNumber, <<>>, <<"H", "i">>, Repeated(<<"s">>, 101)},
          body : {null, <<>>, <<"H", "e", "l", "l", "o">>}]

NoPaymentArg == [given |-> FALSE, data |-> EmptyPaymentData]

PaymentArgs ==
    {NoPaymentArg}
    \cup {[given |-> TRUE, data |-> d] : d \in PaymentInputs(0)}
    \cup {[given |-> TRUE, data |-> [EmptyPaymentData EXCEPT !.paymentType = "paypal",
                                                            !.paypalUsername = aNumber]]}

StringArgs ==
    {null, aNumber, <<>>, <<"h", "e", "l", "l", "o">>}
    \cup {generatePaymentString(d) : d \in {x \in PaymentInputs(0) : validatePaymentData(x) = <<>>}}

(* Contact (vCard): src/src/scripts/components/email-form-validator.js
   (VCardQRGenerator), src/unnamed/part_011 (VCardFormValidator) and
   src/unnamed/part_015 (the contact page) *)

VCardFieldNames ==
    {"firstName", "lastName", "jobTitle", "company", "phone", "email", "website",
     "street", "city", "state", "zip", "country"}

\* generateVCardString with the ADR line always written.
VCardStringAlwaysAddress(contact) ==
    <<"B", "E", "G", "I", "N", ":", "V", "C", "A", "R", "D">> \o <<"\n">> \o <<"V", "E", "R",
        "S", "I", "O", "N", ":", "3", ".", "0">> \o <<"\n">>
    \o (IF contact.firstName # <<>> \/ contact.lastName # <<>>
        THEN <<"N", ":">> \o contact.lastName \o <<";">> \o contact.firstName \o <<";", ";",
            ";">> \o <<"\n">>
             \o Trim(<<"F", "N",
                 ":">> \o contact.firstName \o <<" ">> \o contact.lastName) \o <<"\n">>
        ELSE <<>>)
    \o (IF contact.company # <<>> THEN <<"O", "R", "G",
        ":">> \o contact.company \o <<"\n">> ELSE <<>>)
    \o (IF contact.jobTitle # <<>> THEN <<"T", "I", "T", "L", "E",
        ":">> \o contact.jobTitle \o <<"\n">> ELSE <<>>)
    \o (IF contact.phone # <<>> THEN <<"T", "E", "L",
        ":">> \o contact.phone \o <<"\n">> ELSE <<>>)
    \o (IF contact.email # <<>> THEN <<"E", "M", "A", "I", "L",
        ":">> \o contact.email \o <<"\n">> ELSE <<>>)
    \o (IF contact.website # <<>> THEN <<"U", "R", "L",
        ":">> \o contact.website \o <<"\n">> ELSE <<>>)
    \o <<"A", "D", "R",
        ":">> \o Join(<<<<>>, <<>>, contact.street, contact.city, contact.state,
                         contact.zip, contact.country>>, ";") \o <<"\n">>
    \o <<"E", "N", "D", ":", "V", "C", "A", "R", "D">>

\* generateVCardString
generateVCardString(contact) ==
    LET addressParts == <<<<>>, <<>>, contact.street, contact.city, contact.state,
                          contact.zip, contact.country>>
    IN  <<"B", "E", "G", "I", "N", ":", "V", "C", "A", "R", "D">> \o <<"\n">> \o <<"V", "E",
        "R", "S", "I", "O", "N", ":", "3", ".", "0">> \o <<"\n">>
        \o (IF contact.firstName # <<>> \/ contact.lastName # <<>>
            THEN <<"N", ":">> \o contact.lastName \o <<";">> \o contact.firstName \o <<";",
                ";", ";">>
                   \o <<"\n">>
                 \o Trim(<<"F", "N", ":">> \o contact.firstName \o <<" ">> \o contact.lastName)
                   \o <<"\n">>
            ELSE <<>>)
        \o (IF contact.company # <<>> THEN <<"O", "R", "G",
            ":">> \o contact.company \o <<"\n">> ELSE <<>>)
        \o (IF contact.jobTitle # <<>>
            THEN <<"T", "I", "T", "L", "E", ":">> \o contact.jobTitle \o <<"\n">> ELSE <<>>)
        \o (IF contact.phone # <<>> THEN <<"T", "E", "L",
            ":">> \o contact.phone \o <<"\n">> ELSE <<>>)
        \o (IF contact.email # <<>> THEN <<"E", "M", "A", "I", "L",
            ":">> \o contact.email \o <<"\n">> ELSE <<>>)
        \o (IF contact.website # <<>> THEN <<"U", "R", "L",
            ":">> \o contact.website \o <<"\n">> ELSE <<>>)
        \o (IF \E i \in 1..Len(addressParts) : Trim(addressParts[i]) # <<>>
            THEN <<"A", "D", "R", ":">> \o Join(addressParts, ";") \o <<"\n">>
            ELSE <<>>)
        \o <<"E", "N", "D", ":", "V", "C", "A", "R", "D">>

\* /^[\+]?[\d\s\-\(\)\.]{7,}$/.test(phone)
phoneRegex(number) ==
    LET body == IF number # <<>> /\ number[1] = "+" THEN Tail(number) ELSE number
    IN  /\ Len(body) >= 7
        /\ \A i \in 1..Len(body) : body[i] \in Digit \cup WhiteSpace \cup {"-", "(", ")", "."}

\* The data object getFormData builds: every field value, trimmed.
vcardFormData(fields) == [f \in VCardFieldNames |-> Trim(fields[f])]

\* getFormData of the contact form: names, email, website and phone are
\* validated on the trimmed values.
getVCardFormData(fields) ==
    LET data == vcardFormData(fields)
        validNames == data.firstName # <<>> \/ data.lastName # <<>>
        validEmail == data.email = <<>> \/ emailRegex(data.email)
        validWebsite == data.website = <<>> \/ ~UrlThrows(data.website)
        validPhone == data.phone = <<>> \/ phoneRegex(data.phone)
    IN  IF ~(validNames /\ validEmail /\ validWebsite /\ validPhone)
        THEN [isValid |-> FALSE, error |-> "Please correct the errors above", data |-> data]
        ELSE IF \A f \in VCardFieldNames : Len(data[f]) = 0
        THEN [isValid |-> FALSE, error |-> "Please fill in at least some contact information",
              data |-> data]
        ELSE [isValid |-> TRUE, error |-> "", data |-> data]

NoVCardData == [f \in VCardFieldNames |-> <<>>]
NoVCardResult == [success |-> FALSE, error |-> "", vcardString |-> <<>>]

\* handleFormSubmit of the contact page: the form data is read and validated,
\* kept as currentData.vcardData and given to generateVCardQR, which refuses
\* a contact without a name and fails when the renderer throws.
handleVCardFormSubmit ==
    /\ pc = "ready"
    /\ \E formResult \in {getVCardFormData(vcardFields)} :
         IF ~formResult.isValid
         THEN /\ vcardResult' = [success |-> FALSE, error |-> formResult.error,
                                 vcardString |-> <<>>]
              /\ UNCHANGED vcardData
         ELSE /\ vcardData' = formResult.data
              /\ \E rendered \in BOOLEAN :
                   vcardResult' =
                     IF formResult.data.firstName = <<>> /\ formResult.data.lastName = <<>>
                     THEN [success |-> FALSE,
                           error |-> "At least first name or last name is required",
                           vcardString |-> <<>>]
                     ELSE IF ~rendered
                     THEN [success |-> FALSE, error |-> "Failed to generate VCard QR code",
                           vcardString |-> <<>>]
                     ELSE [success |-> TRUE, error |-> "",
                           vcardString |-> generateVCardString(formResult.data)]
    /\ pc' = "done"
    /\ UNCHANGED <<vcardFields, vcardString>>

\* generateVCardString applied to the data object of the form, whether or
\* not the form validation accepts it.
generateVCardStringCall ==
    /\ pc = "ready"
    /\ vcardString' = generateVCardString(vcardFormData(vcardFields))
    /\ pc' = "encoded"
    /\ UNCHANGED <<vcardFields, vcardData, vcardResult>>

(* Link shortener: src/api/shorten.js (POST /api/shorten) and
   src/api/[shortCode].js (GET /<shortCode>), two serverless handlers over
   one key-value store.  Every `await kv...` is a step of its own, so the
   steps of concurrent requests interleave. *)

Requests == 1..MaxRequests

\* The codes Math.random may make generateShortCode return (two of the 62^7).
ShortCodes == {<<"A", "b", "C", "1", "2", "3", "X">>, <<"q", "7", "Z", "k", "0", "p", "L">>}

\* Bodies of the POST requests: no url, an invalid one, one that is not
\* http(s), and two valid URLs.
LongUrlA == <<"h", "t", "t", "p", "s", ":", "/", "/", "e", "x", "a", "m", "p", "l", "e", ".",
    "c", "o", "m", "/", "v", "e", "r", "y", "/", "l", "o", "n", "g", "/", "u", "r", "l">>
LongUrlB == <<"h", "t", "t", "p", "s", ":", "/", "/", "e", "x", "a", "m", "p", "l", "e", ".",
    "o", "r", "g", "/", "b">>
RequestUrls == {<<>>, <<"e", "x", "a", "m", "p", "l", "e">>, <<"f", "t", "p", ":", "/", "/",
    "e", "x", "a", "m", "p", "l", "e", ".", "c", "o", "m", "/">>, LongUrlA, LongUrlB}

\* isValidUrl
isValidUrl(string) ==
    /\ ~UrlThrows(string)
    /\ protocol(Trim(string)) \in {<<"h", "t", "t", "p", ":">>, <<"h", "t", "t", "p", "s", ":">>}

\* The keys the two handlers use.
codeKey(code) == <<"c", "o", "d", "e", ":">> \o code
urlKey(url) == <<"u", "r", "l", ":">> \o url
DATABASE_NAME == <<"l", "i", "n", "k", "-", "s", "h", "o", "r", "t", "e", "n", "i", "n", "g",
    "-", "t", "e", "s", "t">>
redirectKey(code) == DATABASE_NAME \o <<":", "c", "o", "d", "e", ":">> \o code

Keys ==
    {codeKey(c) : c \in ShortCodes} \cup {urlKey(u) : u \in RequestUrls}
    \cup {redirectKey(c) : c \in ShortCodes}

\* kv.get(key): null when nothing is stored under the key.
kvGet(store, key) == store[key]

maxAttempts == 10
oneYear == 31536000

NoResponse == [status |-> 0, shortCode |-> <<>>, originalUrl |-> <<>>, error |-> ""]
ErrorResponse(status, error) ==
    [status |-> status, shortCode |-> <<>>, originalUrl |-> <<>>, error |-> error]
ShortResponse(code, url) ==
    [status |-> 200, shortCode |-> code, originalUrl |-> url, error |-> ""]

Finish(r, resp) ==
    /\ response' = [response EXCEPT ![r] = resp]
    /\ rpc' = [rpc EXCEPT ![r] = "responded"]

\* handler of shorten.js up to its first await: method and body are checked.
Receive(r) ==
    /\ rpc[r] = "received"
    /\ IF request[r].method = "OPTIONS" THEN Finish(r, ErrorResponse(200, ""))
       ELSE IF request[r].method # "POST" THEN Finish(r, ErrorResponse(405, "Method not allowed"))
       ELSE IF request[r].url = <<>> THEN Finish(r, ErrorResponse(400, "URL is required"))
       ELSE IF ~isValidUrl(request[r].url)
       THEN Finish(r, ErrorResponse(400, "Invalid URL format"))
       ELSE /\ rpc' = [rpc EXCEPT ![r] = "lookup"]
            /\ UNCHANGED response
    /\ UNCHANGED <<request, shortCode, attempts, kv, ttl, visit>>

\* const existingCode = await kv.get(`url:${url}`)
LookupUrl(r) ==
    /\ rpc[r] = "lookup"
    /\ IF kvGet(kv, urlKey(request[r].url)) # null
       THEN Finish(r, ShortResponse(kvGet(kv, urlKey(request[r].url)), request[r].url))
       ELSE /\ rpc' = [rpc EXCEPT ![r] = "generate"]
            /\ UNCHANGED response
    /\ UNCHANGED <<request, shortCode, attempts, kv, ttl, visit>>

\* The body of the do-while: a random code, one more attempt, 500 after the
\* tenth.
GenerateCode(r) ==
    /\ rpc[r] = "generate"
    /\ \E code \in ShortCodes :
         /\ shortCode' = [shortCode EXCEPT ![r] = code]
         /\ attempts' = [attempts EXCEPT ![r] = @ + 1]
         /\ IF attempts[r] + 1 > maxAttempts
            THEN Finish(r, ErrorResponse(500, "Unable to generate unique short code"))
            ELSE /\ rpc' = [rpc EXCEPT ![r] = "check"]
                 /\ UNCHANGED response
    /\ UNCHANGED <<request, kv, ttl, visit>>

\* while (await kv.get(`code:${shortCode}`))
CheckCode(r) ==
    /\ rpc[r] = "check"
    /\ rpc' = [rpc EXCEPT ![r] = IF kvGet(kv, codeKey(shortCode[r])) # null
                                 THEN "generate" ELSE "setCode"]
    /\ UNCHANGED <<request, shortCode, attempts, response, kv, ttl, visit>>

\* await kv.set(`code:${shortCode}`, url)
SetCode(r) ==
    /\ rpc[r] = "setCode"
    /\ kv' = [kv EXCEPT ![codeKey(shortCode[r])] = request[r].url]
    /\ rpc' = [rpc EXCEPT ![r] = "setUrl"]
    /\ UNCHANGED <<request, shortCode, attempts, response, ttl, visit>>

\* await kv.set(`url:${url}`, shortCode)
SetUrl(r) ==
    /\ rpc[r] = "setUrl"
    /\ kv' = [kv EXCEPT ![urlKey(request[r].url)] = shortCode[r]]
    /\ rpc' = [rpc EXCEPT ![r] = "expireCode"]
    /\ UNCHANGED <<request, shortCode, attempts, response, ttl, visit>>

\* await kv.expire(`code:${shortCode}`, 31536000)
ExpireCode(r) ==
    /\ rpc[r] = "expireCode"
    /\ ttl' = [ttl EXCEPT ![codeKey(shortCode[r])] = oneYear]
    /\ rpc' = [rpc EXCEPT ![r] = "expireUrl"]
    /\ UNCHANGED <<request, shortCode, attempts, response, kv, visit>>

\* await kv.expire(`url:${url}`, 31536000), then the 200 response
ExpireUrl(r) ==
    /\ rpc[r] = "expireUrl"
    /\ ttl' = [ttl EXCEPT ![urlKey(request[r].url)] = oneYear]
    /\ Finish(r, ShortResponse(shortCode[r], request[r].url))
    /\ UNCHANGED <<request, shortCode, attempts, kv, visit>>

NoVisit == [shortCode |-> <<>>, status |-> 0, location |-> <<>>]

\* handler of [shortCode].js: a visit of https://qubex.it/<shortCode>.
Redirect(code) ==
    /\ visit' =
         IF code = <<>>
         THEN [shortCode |-> code, status |-> 400, location |-> <<>>]
         ELSE IF kvGet(kv, redirectKey(code)) = null
         THEN [shortCode |-> code, status |-> 404, location |-> <<>>]
         ELSE [shortCode |-> code, status |-> 302, location |-> kvGet(kv, redirectKey(code))]
    /\ UNCHANGED <<request, rpc, shortCode, attempts, response, kv, ttl>>

----------------------------------------------------------------------------
(* Page controllers: src/unnamed/part_005 (WiFi page), src/unnamed/part_016
   (Event page), src/unnamed/part_017 (Email page), with
   src/unnamed/part_007 (LoadingStates) and
   src/Test-QR-generator/src/scripts/utils/error-handler.js (ErrorHandler).
   currentData.details is the page's wifiData, eventData or currentEmailData,
   currentData.payload its wifiString or icalString, currentData.qrDataURL
   its qrDataURL or currentQRCode. *)

Pages == {"wifi", "event", "email"}

\* canvas.toDataURL('image/png'): the image of the payload drawn on the canvas.
toPng(payload) == [png |-> payload]
noImage == [png |-> null]

\* The page's data before any submission and after a reset.
NoDetails(p) ==
    CASE p = "wifi" -> NoWiFiData
      [] p = "event" -> EmptyEventData
      [] p = "email" -> NoEmailData

NoCurrentData(p) == [details |-> NoDetails(p), qrDataURL |-> noImage, payload |-> null]

\* The three sections and the generate button: shown or hidden, disabled or
\* not, and the text of #error-message.
AllHidden == [loading |-> FALSE, results |-> FALSE, error |-> FALSE, disabled |-> FALSE,
              message |-> ""]

\* LoadingStates
showLoading(s) == [s EXCEPT !.loading = TRUE, !.results = FALSE, !.error = FALSE]
hideLoading(s) == [s EXCEPT !.loading = FALSE]
showResults(s) == [s EXCEPT !.loading = FALSE, !.error = FALSE, !.results = TRUE]
showButtonLoading(s) == [s EXCEPT !.disabled = TRUE]
hideButtonLoading(s) == [s EXCEPT !.disabled = FALSE]
resetAllStates(s) == [s EXCEPT !.loading = FALSE, !.results = FALSE, !.error = FALSE]

ShowErrorKeepsLoading(s, message) ==
    [s EXCEPT !.message = message, !.error = TRUE, !.results = FALSE]

\* ErrorHandler.showError, with #error-message and #error-section in the page
showError(s, message) ==
    [s EXCEPT !.message = message, !.error = TRUE, !.results = FALSE, !.loading = FALSE]

\* ErrorHandler.hideError
hideError(s) == [s EXCEPT !.error = FALSE]

\* The Email page's own showLoading, hideLoading, hideResults, showResults
\* and showError.
pageHideLoading(s) == [s EXCEPT !.disabled = FALSE, !.loading = FALSE]
pageHideResults(s) == [s EXCEPT !.results = FALSE]
pageShowLoading(s) ==
    [pageHideResults(hideError(s)) EXCEPT !.disabled = TRUE, !.loading = TRUE]
pageShowResults(s) == [hideError(pageHideLoading(s)) EXCEPT !.results = TRUE]
pageShowError(s, message) ==
    [pageHideResults(pageHideLoading(s)) EXCEPT !.message = message, !.error = TRUE]

\* Form entries of the three pages.
Cafe == <<"C", "a", "f", "e">>

FormEntries(p) ==
    CASE p = "wifi" ->
           {[ssid |-> Home, password |-> password123, security |-> "WPA"],
            [ssid |-> Cafe, password |-> <<>>, security |-> "nopass"],
            [ssid |-> <<>>, password |-> <<>>, security |-> "nopass"]}
      [] p = "event" ->
           {[accepted |-> FALSE, data |-> EmptyEventData],
            [accepted |-> TRUE,
             data |-> [EmptyEventData EXCEPT !.eventTitle = <<"L", "a", "u", "n", "c", "h">>,
                                             !.startDate = <<"2", "0", "2", "5", "-", "0", "6",
                                                 "-", "0", "1">>,
                                             !.endDate = <<"2", "0", "2", "5", "-", "0", "6",
                                                 "-", "0", "1">>,
                                             !.startTime = <<"0", "9", ":", "0", "0">>,
                                             !.endTime = <<"1", "0", ":", "1", "5">>]],
            [accepted |-> TRUE,
             data |-> [EmptyEventData EXCEPT !.eventTitle = <<"P", "a", "r", "t", "y">>,
                                             !.startDate = <<"2", "0", "2", "5", "-", "0", "6",
                                                 "-", "0", "1">>,
                                             !.endDate = <<"2", "0", "2", "5", "-", "0", "6",
                                                 "-", "0", "1">>,
                                             !.allDay = TRUE]]}
      [] p = "email" ->
           {[recipient |-> <<"j", "a", "n", "e", "@", "q", "u", "b", "e", "x",
               ".", "i", "t">>, subject |-> <<"H", "i">>, body |-> <<>>],
            [recipient |-> <<"t", "e", "a", "m", "@", "q", "u", "b", "e", "x",
                ".", "i", "t">>, subject |-> <<>>, body |-> <<"H", "e", "l", "l", "o">>],
            [recipient |-> <<"j", "a", "n", "e">>, subject |-> <<>>, body |-> <<>>]}

\* What the form validator's getFormData returns for the entry in the form:
\* validity, message and data.  The Event form's validator is not modelled
\* field by field: its entry arrives as refused or as accepted and trimmed.
FormResult(p, entry) ==
    CASE p = "wifi" ->
           IF getFormData(entry).isValid
           THEN [isValid |-> TRUE, error |-> "",
                 data |-> [ssid |-> getFormData(entry).data.ssid,
                           password |-> getFormData(entry).data.password,
                           security |-> getFormData(entry).data.security,
                           hidden |-> FALSE]]
           ELSE [isValid |-> FALSE, error |-> getFormData(entry).error,
                 data |-> NoWiFiData]
      [] p = "event" ->
           IF entry.accepted
           THEN [isValid |-> TRUE, error |-> "", data |-> entry.data]
           ELSE [isValid |-> FALSE, error |-> "Please correct the errors above",
                 data |-> EmptyEventData]
      [] p = "email" ->
           IF /\ validateRecipient(Trim(entry.recipient))
              /\ validateSubject(Trim(entry.subject))
              /\ validateBody(Trim(entry.body))
           THEN [isValid |-> TRUE, error |-> "",
                 data |-> [recipient |-> Trim(entry.recipient),
                           subject |-> Trim(entry.subject), body |-> Trim(entry.body)]]
           ELSE [isValid |-> FALSE, error |-> "", data |-> NoEmailData]

\* The clock readings of the Event generator in a controller run.
PageClocks == {FirstClock, [seconds |-> 1748779200, ms |-> 0]}

Failure(error) == [success |-> FALSE, error |-> error, payload |-> null, dataURL |-> noImage]
Success(payload) == [success |-> TRUE, error |-> "", payload |-> payload,
                     dataURL |-> toPng(payload)]

\* The results the awaited generator call can settle with: generateWiFiQR and
\* generateEventQR resolve to a result object, generateEmailQR resolves to the
\* data URL or rejects.  The library import and toCanvas may fail.
Generation(p, data) ==
    CASE p = "wifi" ->
           IF validateWiFiData(data) # "" THEN {Failure(validateWiFiData(data))}
           ELSE {Success(formatWiFiString(data)),
                 Failure("Failed to generate WiFi QR code")}
      [] p = "event" ->
           IF eventError(data, TRUE) # "" THEN {Failure(eventError(data, TRUE))}
           ELSE {IF generateICalString(data, now, 0) = RangeError
                 THEN Failure("Invalid time value")
                 ELSE Success(generateICalString(data, now, 0)) : now \in PageClocks}
                \cup {Failure("Failed to generate Event QR code")}
      [] p = "email" ->
           IF validateEmailData(data) # ""
           THEN {Failure("Failed to generate email QR code")}
           ELSE {Success(createMailtoUrl(data)),
                 Failure("Failed to generate email QR code")}

NotAwaiting(p) == [pending |-> FALSE, data |-> NoDetails(p)]
NoPdf(p) == [downloaded |-> FALSE, qrDataURL |-> noImage, details |-> NoDetails(p)]

\* handleFormSubmit of the WiFi and Event pages, up to its await: the form
\* data; refused, the error is shown (and the finally block enables the
\* button); accepted, it is stored in currentData, the loading state is
\* shown, the button disabled and the generator called.  A submit event needs
\* the enabled button.
SubmitForm ==
    /\ page \in {"wifi", "event"}
    /\ ~sections.disabled
    /\ ~awaited.pending
    /\ submits < MaxSubmits
    /\ submits' = submits + 1
    /\ \E entry \in FormEntries(page) :
       \E formResult \in {FormResult(page, entry)} :
         IF ~formResult.isValid
         THEN /\ sections' = hideButtonLoading(showError(sections, formResult.error))
              /\ UNCHANGED <<currentData, awaited>>
         ELSE /\ currentData' = [currentData EXCEPT !.details = formResult.data]
              /\ sections' = showButtonLoading(showLoading(sections))
              /\ awaited' = [pending |-> TRUE, data |-> formResult.data]
    /\ UNCHANGED <<page, pdf>>

\* handleFormSubmit of the WiFi and Event pages, from its await on: the
\* result is stored and the results shown, or the failure is thrown, caught
\* and shown; the finally block enables the button.
ResumeSubmit ==
    /\ page \in {"wifi", "event"}
    /\ awaited.pending
    /\ \E qrResult \in Generation(page, awaited.data) :
         IF qrResult.success
         THEN /\ currentData' = [currentData EXCEPT !.qrDataURL = qrResult.dataURL,
                                                    !.payload = qrResult.payload]
              /\ sections' = hideButtonLoading(showResults(sections))
         ELSE /\ sections' = hideButtonLoading(showError(sections, qrResult.error))
              /\ UNCHANGED currentData
    /\ awaited' = NotAwaiting(page)
    /\ UNCHANGED <<page, pdf, submits>>

\* handleFormSubmit of the Email page, up to its await: nothing happens for
\* a refused entry; for an accepted one the loading state is shown, the
\* email data stored and the generator called.
SubmitEmailForm ==
    /\ page = "email"
    /\ ~sections.disabled
    /\ ~awaited.pending
    /\ submits < MaxSubmits
    /\ submits' = submits + 1
    /\ \E entry \in FormEntries(page) :
       \E formResult \in {FormResult(page, entry)} :
         IF ~formResult.isValid
         THEN UNCHANGED <<currentData, sections, awaited>>
         ELSE /\ sections' = pageShowLoading(sections)
              /\ currentData' = [currentData EXCEPT !.details = formResult.data]
              /\ awaited' = [pending |-> TRUE, data |-> formResult.data]
    /\ UNCHANGED <<page, pdf>>

\* handleFormSubmit of the Email page, from its await on.
ResumeEmailSubmit ==
    /\ page = "email"
    /\ awaited.pending
    /\ \E qrResult \in Generation(page, awaited.data) :
         IF qrResult.success
         THEN /\ currentData' = [currentData EXCEPT !.qrDataURL = qrResult.dataURL]
              /\ sections' = pageShowResults(sections)
         ELSE /\ sections' =
                   pageShowError(sections,
                                 "Failed to generate email QR code. Please try again.")
              /\ UNCHANGED currentData
    /\ awaited' = NotAwaiting(page)
    /\ UNCHANGED <<page, pdf, submits>>

\* handlePDFDownload (handleDownloadPDF on the Email page), from the button
\* offered with the results: the image and the details are taken from
\* currentData; the PDF generator may fail.
handlePDFDownload ==
    /\ sections.results
    /\ IF currentData.qrDataURL = noImage \/ currentData.details = NoDetails(page)
       THEN /\ sections' = IF page = "email"
                           THEN pageShowError(sections, "No QR code to download")
                           ELSE showError(sections, "No QR code available for download")
            /\ UNCHANGED pdf
       ELSE \E generated \in BOOLEAN :
              IF generated
              THEN /\ pdf' = [downloaded |-> TRUE, qrDataURL |-> currentData.qrDataURL,
                              details |-> currentData.details]
                   /\ UNCHANGED sections
              ELSE /\ sections' = IF page = "email"
                                  THEN pageShowError(sections, "Failed to generate PDF")
                                  ELSE showError(sections, "Failed to generate PDF")
                   /\ UNCHANGED pdf
    /\ UNCHANGED <<page, currentData, awaited, submits>>

\* resetApplication of the WiFi and Event pages, from the buttons offered
\* with the results and with the error.
resetApplication ==
    /\ page \in {"wifi", "event"}
    /\ sections.results \/ sections.error
    /\ currentData' = NoCurrentData(page)
    /\ sections' = hideError(resetAllStates(sections))
    /\ UNCHANGED <<page, awaited, pdf, submits>>

\* handleGenerateAnother of the Email page, from the button offered with the
\* results.
handleGenerateAnother ==
    /\ page = "email"
    /\ sections.results
    /\ currentData' = NoCurrentData(page)
    /\ sections' = hideError(pageHideResults(sections))
    /\ UNCHANGED <<page, awaited, pdf, submits>>

\* The Email page's dismiss button, offered with the error: hideError.
dismissError ==
    /\ page = "email"
    /\ sections.error
    /\ sections' = hideError(sections)
    /\ UNCHANGED <<page, currentData, awaited, pdf, submits>>

----------------------------------------------------------------------------
(* Specifications: one per tool; the variables of the other tools stay unused *)

WiFiUnused ==
    /\ str = Unused /\ escaped = Unused /\ wifiData = Unused /\ wifiResult = Unused
    /\ wifiForm = Unused /\ wifiFields = Unused
GeoUnused ==
    canvas = Unused /\ mapsUrl = Unused /\ parseResult = Unused /\ locationResult = Unused

IbanUnused == ibanCode = Unused /\ ibanResult = Unused

PaymentUnused ==
    /\ paymentData = Unused /\ currentQRCode = Unused /\ currentPaymentData = Unused
    /\ paymentError = Unused /\ paymentInfo = Unused

PhoneUnused == phone = Unused /\ cleanPhone = Unused /\ reformatted = Unused

MessagingUnused ==
    /\ smsData = Unused /\ smsResult = Unused /\ phoneData = Unused /\ phoneResult = Unused

EventUnused ==
    /\ eventData = Unused /\ eventCanvas = Unused /\ timeZone = Unused /\ clock = Unused
    /\ eventValidation = Unused /\ eventResult = Unused /\ issued = Unused
    /\ icalText = Unused /\ icalEscaped = Unused

EmailUnused ==
    emailFields = Unused /\ currentEmailData = Unused /\ emailResult = Unused

TextUnused ==
    /\ textInput = Unused /\ textFormatted = Unused /\ textForQR = Unused
    /\ textValidation = Unused /\ currentText = Unused /\ toDataURL = Unused
    /\ textResult = Unused

BoundaryUnused ==
    emailArg = Unused /\ paymentArg = Unused /\ stringArg = Unused /\ outcome = Unused

VCardUnused ==
    vcardFields = Unused /\ vcardData = Unused /\ vcardResult = Unused /\ vcardString = Unused

ShortenerUnused ==
    /\ request = Unused /\ rpc = Unused /\ shortCode = Unused /\ attempts = Unused
    /\ response = Unused /\ kv = Unused /\ ttl = Unused /\ visit = Unused

ControllerUnused ==
    /\ page = Unused /\ currentData = Unused /\ sections = Unused /\ awaited = Unused
    /\ pdf = Unused /\ submits = Unused

OnlyWiFi == UNCHANGED <<geoVars, ibanVars, paymentVars, phoneVars, messagingVars, eventVars, emailVars, textVars, boundaryVars, vcardVars, shortenerVars, controllerVars>>
OnlyGeo == UNCHANGED <<wifiVars, ibanVars, paymentVars, phoneVars, messagingVars, eventVars, emailVars, textVars, boundaryVars, vcardVars, shortenerVars, controllerVars>>
OnlyIban == UNCHANGED <<wifiVars, geoVars, paymentVars, phoneVars, messagingVars, eventVars, emailVars, textVars, boundaryVars, vcardVars, shortenerVars, controllerVars>>
OnlyPayment == UNCHANGED <<wifiVars, geoVars, ibanVars, phoneVars, messagingVars, eventVars, emailVars, textVars, boundaryVars, vcardVars, shortenerVars, controllerVars>>
OnlyPhone == UNCHANGED <<wifiVars, geoVars, ibanVars, paymentVars, messagingVars, eventVars, emailVars, textVars, boundaryVars, vcardVars, shortenerVars, controllerVars>>
OnlyMessaging == UNCHANGED <<wifiVars, geoVars, ibanVars, paymentVars, phoneVars, eventVars, emailVars, textVars, boundaryVars, vcardVars, shortenerVars, controllerVars>>
OnlyEvent == UNCHANGED <<wifiVars, geoVars, ibanVars, paymentVars, phoneVars, messagingVars, emailVars, textVars, boundaryVars, vcardVars, shortenerVars, controllerVars>>
OnlyEmail == UNCHANGED <<wifiVars, geoVars, ibanVars, paymentVars, phoneVars, messagingVars, eventVars, textVars, boundaryVars, vcardVars, shortenerVars, controllerVars>>
OnlyText == UNCHANGED <<wifiVars, geoVars, ibanVars, paymentVars, phoneVars, messagingVars, eventVars, emailVars, boundaryVars, vcardVars, shortenerVars, controllerVars>>
OnlyBoundary == UNCHANGED <<wifiVars, geoVars, ibanVars, paymentVars, phoneVars, messagingVars, eventVars, emailVars, textVars, vcardVars, shortenerVars, controllerVars>>
OnlyVCard == UNCHANGED <<wifiVars, geoVars, ibanVars, paymentVars, phoneVars, messagingVars, eventVars, emailVars, textVars, boundaryVars, shortenerVars, controllerVars>>
OnlyShortener == UNCHANGED <<wifiVars, geoVars, ibanVars, paymentVars, phoneVars, messagingVars, eventVars, emailVars, textVars, boundaryVars, vcardVars, controllerVars>>
OnlyController == UNCHANGED <<wifiVars, geoVars, ibanVars, paymentVars, phoneVars, messagingVars, eventVars, emailVars, textVars, boundaryVars, vcardVars, shortenerVars>>

InitEscape ==
    /\ pc = "ready"
    /\ str \in Strings(EscChars, MaxEscLen)
    /\ escaped = <<>>
    /\ wifiData = Unused
    /\ wifiResult = Unused
    /\ wifiForm = Unused /\ wifiFields = Unused
    /\ GeoUnused /\ IbanUnused /\ PaymentUnused /\ PhoneUnused /\ MessagingUnused /\ EventUnused /\ EmailUnused /\ TextUnused /\ BoundaryUnused /\ VCardUnused /\ ShortenerUnused /\ ControllerUnused

NextEscape == EscapeCall /\ OnlyWiFi

SpecEscape == InitEscape /\ [][NextEscape]_vars

InitWiFi ==
    /\ pc = "ready"
    /\ wifiData \in [ssid : SsidInputs, password : PasswordInputs,
                     security : validSecurityTypes \cup {"WPA2"}, hidden : BOOLEAN]
    /\ wifiResult = NoWiFiResult
    /\ wifiForm = Unused /\ wifiFields = Unused
    /\ str = Unused
    /\ escaped = Unused
    /\ GeoUnused /\ IbanUnused /\ PaymentUnused /\ PhoneUnused /\ MessagingUnused /\ EventUnused /\ EmailUnused /\ TextUnused /\ BoundaryUnused /\ VCardUnused /\ ShortenerUnused /\ ControllerUnused

NextWiFi == generateWiFiQR /\ OnlyWiFi

SpecWiFi == InitWiFi /\ [][NextWiFi]_vars

InitGeo ==
    /\ pc = "ready"
    /\ canvas = FALSE
    /\ mapsUrl \in MapsUrlInputs(MaxSegments)
    /\ parseResult = NoParse
    /\ locationResult = NoLocationResult
    /\ WiFiUnused /\ IbanUnused /\ PaymentUnused /\ PhoneUnused /\ MessagingUnused /\ EventUnused /\ EmailUnused /\ TextUnused /\ BoundaryUnused /\ VCardUnused /\ ShortenerUnused /\ ControllerUnused

NextGeo ==
    \/ (LocationInit /\ OnlyGeo)
    \/ (generateLocationQR /\ OnlyGeo)

SpecGeo == InitGeo /\ [][NextGeo]_vars

InitIban ==
    /\ pc = "ready"
    /\ ibanCode \in IbanInputs(MaxIbanTail)
    /\ ibanResult = NoIbanResult
    /\ WiFiUnused /\ GeoUnused /\ PaymentUnused /\ PhoneUnused /\ MessagingUnused /\ EventUnused /\ EmailUnused /\ TextUnused /\ BoundaryUnused /\ VCardUnused /\ ShortenerUnused /\ ControllerUnused

NextIban == validateIBANCode /\ OnlyIban

SpecIban == InitIban /\ [][NextIban]_vars

InitPayment ==
    /\ pc = "ready"
    /\ paymentData \in PaymentInputs(MaxNameLen)
    /\ currentQRCode = NoQRCode
    /\ currentPaymentData = EmptyPaymentData
    /\ paymentError = <<>>
    /\ paymentInfo = NoPaymentInfo
    /\ WiFiUnused /\ GeoUnused /\ IbanUnused /\ PhoneUnused /\ MessagingUnused /\ EventUnused /\ EmailUnused /\ TextUnused /\ BoundaryUnused /\ VCardUnused /\ ShortenerUnused /\ ControllerUnused

NextPayment ==
    \/ (handleFormSubmit /\ OnlyPayment)
    \/ (ExtractCall /\ OnlyPayment)

SpecPayment == InitPayment /\ [][NextPayment]_vars

InitPhone ==
    /\ pc = "ready"
    /\ phone \in PhoneInputs
    /\ cleanPhone = <<>>
    /\ reformatted = <<>>
    /\ WiFiUnused /\ GeoUnused /\ IbanUnused /\ PaymentUnused /\ MessagingUnused /\ EventUnused /\ EmailUnused /\ TextUnused /\ BoundaryUnused /\ VCardUnused /\ ShortenerUnused /\ ControllerUnused

NextPhone ==
    \/ (FormatCall /\ OnlyPhone)
    \/ (ReformatCall /\ OnlyPhone)

SpecPhone == InitPhone /\ [][NextPhone]_vars

\* The same number and text are given to both generators.
InitMessaging ==
    /\ pc = "ready"
    /\ smsData \in [platform : {"sms", "whatsapp", "fax", ""},
                    phone : MessagingPhoneInputs(MaxPhoneDigits), message : MessageInputs]
    /\ phoneData = [platform |-> IF smsData.platform = "sms" THEN "phone"
                                 ELSE smsData.platform,
                    phone |-> smsData.phone, displayName |-> smsData.message]
    /\ smsResult = NoMessagingResult
    /\ phoneResult = NoMessagingResult
    /\ WiFiUnused /\ GeoUnused /\ IbanUnused /\ PaymentUnused /\ PhoneUnused /\ EventUnused /\ EmailUnused /\ TextUnused /\ BoundaryUnused /\ VCardUnused /\ ShortenerUnused /\ ControllerUnused

NextMessaging ==
    \/ (generateSMSQR /\ OnlyMessaging)
    \/ (generatePhoneQR /\ OnlyMessaging)

SpecMessaging == InitMessaging /\ [][NextMessaging]_vars

InitEvent ==
    /\ pc = "ready"
    /\ eventData \in EventInputs
    /\ eventCanvas \in BOOLEAN
    /\ timeZone \in TimeZones
    /\ clock = FirstClock
    /\ eventValidation = [isValid |-> FALSE, errors |-> <<>>]
    /\ eventResult = NoEventResult
    /\ issued = <<>>
    /\ icalText = <<>>
    /\ icalEscaped = <<>>
    /\ WiFiUnused /\ GeoUnused /\ IbanUnused /\ PaymentUnused /\ PhoneUnused /\ MessagingUnused /\ EmailUnused /\ TextUnused /\ BoundaryUnused /\ VCardUnused /\ ShortenerUnused /\ ControllerUnused

NextEvent ==
    \/ (ValidateEventCall /\ OnlyEvent)
    \/ (generateEventQR /\ OnlyEvent)

SpecEvent == InitEvent /\ [][NextEvent]_vars

InitICalText ==
    /\ pc = "ready"
    /\ icalText \in Strings(ICalChars, MaxTextLen)
    /\ icalEscaped = <<>>
    /\ eventData = EmptyEventData
    /\ eventCanvas = TRUE
    /\ timeZone = 0
    /\ clock = FirstClock
    /\ eventValidation = [isValid |-> FALSE, errors |-> <<>>]
    /\ eventResult = NoEventResult
    /\ issued = <<>>
    /\ WiFiUnused /\ GeoUnused /\ IbanUnused /\ PaymentUnused /\ PhoneUnused /\ MessagingUnused /\ EmailUnused /\ TextUnused /\ BoundaryUnused /\ VCardUnused /\ ShortenerUnused /\ ControllerUnused

NextICalText == EscapeICalCall /\ OnlyEvent

SpecICalText == InitICalText /\ [][NextICalText]_vars

InitWiFiForm ==
    /\ pc = "ready"
    /\ wifiFields \in [ssid : FormSsidInputs, password : FormPasswordInputs,
                       security : validSecurityTypes \cup {"WPA2"}]
    /\ wifiData = NoWiFiData
    /\ wifiResult = NoWiFiResult
    /\ wifiForm = NoFormData
    /\ str = Unused
    /\ escaped = Unused
    /\ GeoUnused /\ IbanUnused /\ PaymentUnused /\ PhoneUnused /\ MessagingUnused /\ EventUnused /\ EmailUnused /\ TextUnused /\ BoundaryUnused /\ VCardUnused /\ ShortenerUnused /\ ControllerUnused

NextWiFiForm == handleWiFiFormSubmit /\ OnlyWiFi

SpecWiFiForm == InitWiFiForm /\ [][NextWiFiForm]_vars

InitEmail ==
    /\ pc = "ready"
    /\ emailFields \in [recipient : RecipientInputs, subject : SubjectInputs,
                        body : BodyInputs]
    /\ currentEmailData = NoEmailData
    /\ emailResult = NoEmailResult
    /\ WiFiUnused /\ GeoUnused /\ IbanUnused /\ PaymentUnused /\ PhoneUnused /\ MessagingUnused /\ EventUnused /\ TextUnused /\ BoundaryUnused /\ VCardUnused /\ ShortenerUnused /\ ControllerUnused

NextEmail == handleEmailFormSubmit /\ OnlyEmail

SpecEmail == InitEmail /\ [][NextEmail]_vars

InitTextFormat ==
    /\ pc = "ready"
    /\ textInput \in TextInputs(MaxTextChars)
    /\ textFormatted = <<>> /\ textForQR = <<>> /\ textValidation = NoTextValidation
    /\ currentText = <<>> /\ toDataURL = <<>> /\ textResult = NoTextResult
    /\ WiFiUnused /\ GeoUnused /\ IbanUnused /\ PaymentUnused /\ PhoneUnused /\ MessagingUnused /\ EventUnused /\ EmailUnused /\ BoundaryUnused /\ VCardUnused /\ ShortenerUnused /\ ControllerUnused

NextTextFormat ==
    \/ (formatTextCall /\ OnlyText)
    \/ (formatTextForQRCall /\ OnlyText)
    \/ (validateAndFormatCall /\ OnlyText)

SpecTextFormat == InitTextFormat /\ [][NextTextFormat]_vars

InitText ==
    /\ pc = "ready"
    /\ textInput \in TextInputs(MaxTextChars) \cup {LongText}
    /\ textFormatted = <<>> /\ textForQR = <<>> /\ textValidation = NoTextValidation
    /\ currentText = <<>> /\ toDataURL = <<>> /\ textResult = NoTextResult
    /\ WiFiUnused /\ GeoUnused /\ IbanUnused /\ PaymentUnused /\ PhoneUnused /\ MessagingUnused /\ EventUnused /\ EmailUnused /\ BoundaryUnused /\ VCardUnused /\ ShortenerUnused /\ ControllerUnused

NextText == handleTextFormSubmit /\ OnlyText

SpecText == InitText /\ [][NextText]_vars

InitBoundary ==
    /\ pc = "ready"
    /\ \/ emailArg \in EmailArgs /\ paymentArg = NoPaymentArg /\ stringArg = null
       \/ emailArg = NoEmailArg /\ paymentArg \in PaymentArgs /\ stringArg = null
       \/ emailArg = NoEmailArg /\ paymentArg = NoPaymentArg /\ stringArg \in StringArgs
    /\ outcome = NotCalled
    /\ WiFiUnused /\ GeoUnused /\ IbanUnused /\ PaymentUnused /\ PhoneUnused /\ MessagingUnused /\ EventUnused /\ EmailUnused /\ TextUnused /\ VCardUnused /\ ShortenerUnused /\ ControllerUnused

NextBoundary ==
    \/ (validateEmailDataCall /\ OnlyBoundary)
    \/ (validatePaymentDataCall /\ OnlyBoundary)
    \/ (extractPaymentInfoCall /\ OnlyBoundary)

SpecBoundary == InitBoundary /\ [][NextBoundary]_vars

InitVCard ==
    /\ pc = "ready"
    /\ vcardFields \in
         [firstName : {<<>>, <<" ">>, <<"J", "a", "n", "e">>},
          lastName : {<<>>, <<"D", "o", "e">>},
          jobTitle : {<<>>, <<"C", "T", "O">>},
          company : {<<>>, <<"Q", "u", "b", "e", "x">>},
          phone : {<<>>, <<"+", "1", " ", "5", "5", "5", "-", "0", "1", "0", "0">>,
                   <<"5", "5", "5">>},
          email : {<<>>, <<"j", "a", "n", "e", "@", "q", "u", "b", "e", "x", ".", "i", "t">>,
                   <<"j", "a", "n", "e">>},
          website : {<<>>, <<"h", "t", "t", "p", "s", ":", "/", "/", "q", "u", "b", "e", "x",
                             ".", "i", "t">>},
          street : {<<>>, <<" ">>, <<"1", " ", "M", "a", "i", "n", " ", "S", "t", " ">>},
          city : {<<>>, <<"R", "o", "m", "e">>},
          state : {<<>>, <<"R", "M">>},
          zip : {<<>>, <<"0", "0", "1", "0", "0">>},
          country : {<<>>, <<"I", "T">>}]
    /\ vcardData = NoVCardData
    /\ vcardResult = NoVCardResult
    /\ vcardString = <<>>
    /\ WiFiUnused /\ GeoUnused /\ IbanUnused /\ PaymentUnused /\ PhoneUnused /\ MessagingUnused /\ EventUnused /\ EmailUnused /\ TextUnused /\ BoundaryUnused /\ ShortenerUnused /\ ControllerUnused

NextVCard ==
    \/ (handleVCardFormSubmit /\ OnlyVCard)
    \/ (generateVCardStringCall /\ OnlyVCard)

SpecVCard == InitVCard /\ [][NextVCard]_vars

\* No key is stored when the first request arrives; no key reaches its
\* expiration (one year) while the requests are served.
InitShortener ==
    /\ pc = "ready"
    /\ request \in [Requests -> [method : {"POST", "GET", "OPTIONS"}, url : RequestUrls]]
    /\ rpc = [r \in Requests |-> "received"]
    /\ shortCode = [r \in Requests |-> <<>>]
    /\ attempts = [r \in Requests |-> 0]
    /\ response = [r \in Requests |-> NoResponse]
    /\ kv = [k \in Keys |-> null]
    /\ ttl = [k \in Keys |-> 0]
    /\ visit = NoVisit
    /\ WiFiUnused /\ GeoUnused /\ IbanUnused /\ PaymentUnused /\ PhoneUnused /\ MessagingUnused /\ EventUnused /\ EmailUnused /\ TextUnused /\ BoundaryUnused /\ VCardUnused /\ ControllerUnused

NextShortener ==
    \/ (\E r \in Requests : Receive(r)) /\ UNCHANGED pc /\ OnlyShortener
    \/ (\E r \in Requests : LookupUrl(r)) /\ UNCHANGED pc /\ OnlyShortener
    \/ (\E r \in Requests : GenerateCode(r)) /\ UNCHANGED pc /\ OnlyShortener
    \/ (\E r \in Requests : CheckCode(r)) /\ UNCHANGED pc /\ OnlyShortener
    \/ (\E r \in Requests : SetCode(r)) /\ UNCHANGED pc /\ OnlyShortener
    \/ (\E r \in Requests : SetUrl(r)) /\ UNCHANGED pc /\ OnlyShortener
    \/ (\E r \in Requests : ExpireCode(r)) /\ UNCHANGED pc /\ OnlyShortener
    \/ (\E r \in Requests : ExpireUrl(r)) /\ UNCHANGED pc /\ OnlyShortener
    \/ (\E code \in ShortCodes \cup {<<>>} : Redirect(code)) /\ UNCHANGED pc /\ OnlyShortener

SpecShortener == InitShortener /\ [][NextShortener]_vars

InitController ==
    /\ pc = "ready"
    /\ page \in Pages
    /\ currentData = NoCurrentData(page)
    /\ sections = AllHidden
    /\ awaited = NotAwaiting(page)
    /\ pdf = NoPdf(page)
    /\ submits = 0
    /\ WiFiUnused /\ GeoUnused /\ IbanUnused /\ PaymentUnused /\ PhoneUnused /\ MessagingUnused /\ EventUnused /\ EmailUnused /\ TextUnused /\ BoundaryUnused /\ VCardUnused /\ ShortenerUnused

NextController ==
    \/ SubmitForm /\ UNCHANGED pc /\ OnlyController
    \/ ResumeSubmit /\ UNCHANGED pc /\ OnlyController
    \/ SubmitEmailForm /\ UNCHANGED pc /\ OnlyController
    \/ ResumeEmailSubmit /\ UNCHANGED pc /\ OnlyController
    \/ handlePDFDownload /\ UNCHANGED pc /\ OnlyController
    \/ resetApplication /\ UNCHANGED pc /\ OnlyController
    \/ handleGenerateAnother /\ UNCHANGED pc /\ OnlyController
    \/ dismissError /\ UNCHANGED pc /\ OnlyController

SpecController == InitController /\ [][NextController]_vars

\* The awaited generator call settles: every promise it waits for (the
\* library import, toCanvas) resolves or rejects, and handleFormSubmit is
\* resumed (ResumeSubmit and ResumeEmailSubmit are the steps that end the
\* wait).
SpecControllerLive ==
    /\ InitController /\ [][NextController]_vars
    /\ WF_awaited(awaited.pending /\ awaited' = NotAwaiting(page))

----------------------------------------------------------------------------
(* Claims *)

\* The escaper as the grammar states it: each special character gets one
\* backslash in front, every other character is copied.
RECURSIVE EscapedCharByChar(_)
EscapedCharByChar(s) ==
    IF s = <<>> THEN <<>>
    ELSE (IF Head(s) \in {"\\", ";", ",", "\""} THEN <<"\\", Head(s)>> ELSE <<Head(s)>>)
           \o EscapedCharByChar(Tail(s))

\* Un-escaping: a backslash makes the next character literal.
RECURSIVE Unescaped(_)
Unescaped(s) ==
    IF s = <<>> THEN <<>>
    ELSE IF Head(s) = "\\" /\ Len(s) >= 2 THEN <<s[2]>> \o Unescaped(Tail(Tail(s)))
    ELSE <<Head(s)>> \o Unescaped(Tail(s))

\* C1: for every WiFiCredentials accepted by validation, the payload is
\* WIFI:T:<sec>;S:<escaped ssid>;P:<escaped password>;H:<true|false>;; with
\* sec = WPA for WPA and WPA3, WEP for WEP, nopass for nopass, the P: field
\* omitted exactly for nopass, and Home/password123/WPA/visible gives
\* WIFI:T:WPA;S:Home;P:password123;H:false;;.
C1_WiFiGrammar ==
    (pc = "done" /\ wifiResult.success) =>
        /\ validateWiFiData(wifiData) = ""
        /\ LET sec == CASE wifiData.security \in {"WPA", "WPA3"} -> <<"W", "P", "A">>
                        [] wifiData.security = "WEP" -> <<"W", "E", "P">>
                        [] wifiData.security = "nopass" -> <<"n", "o", "p", "a", "s", "s">>
               pfield == IF wifiData.security = "nopass" THEN <<>>
                         ELSE <<"P", ":">> \o EscapedCharByChar(wifiData.password) \o <<";">>
               h == IF wifiData.hidden THEN <<"t", "r", "u", "e">>
                    ELSE <<"f", "a", "l", "s", "e">>
           IN  wifiResult.wifiString =
                 <<"W", "I", "F", "I", ":", "T", ":">> \o sec \o <<";", "S", ":">>
                   \o EscapedCharByChar(wifiData.ssid) \o <<";">> \o pfield
                   \o <<"H", ":">> \o h \o <<";", ";">>
        /\ (wifiData = [ssid |-> Home, password |-> password123,
                        security |-> "WPA", hidden |-> FALSE]
              => wifiResult.wifiString =
                   <<"W","I","F","I",":","T",":","W","P","A",";","S",":","H","o","m","e",
                     ";","P",":","p","a","s","s","w","o","r","d","1","2","3",";",
                     "H",":","f","a","l","s","e",";",";">>)

\* C1 witness: an accepted WPA3 network whose SSID and password both need escaping.
C1_Witness ==
    /\ pc = "done" /\ wifiResult.success
    /\ wifiData.security = "WPA3"
    /\ \E i \in 1..Len(wifiData.ssid) : wifiData.ssid[i] = ";"
    /\ \E i \in 1..Len(wifiData.password) : wifiData.password[i] = "\\"

\* C2: the escaper puts exactly one backslash before every backslash,
\* semicolon, comma and double quote, copies every other character in order,
\* and un-escaping its output gives back the input.
C2_EscapeExact ==
    pc = "done" =>
        /\ escaped = EscapedCharByChar(str)
        /\ Unescaped(escaped) = str

\* C2 witness: an input holding a backslash followed by a semicolon.
C2_Witness ==
    /\ pc = "done"
    /\ \E i \in 1..(Len(str) - 1) : str[i] = "\\" /\ str[i + 1] = ";"

\* What each of the six patterns finds in the trimmed URL, in the listed order:
\* ?q=, @lat,lng,zoom, /lat,lng, ?ll=, ?center=, the high-precision pair.
PatternMatches(url) ==
    <<MatchQ(Trim(url)), MatchAt(Trim(url)), MatchPath(Trim(url)), MatchLl(Trim(url)),
      MatchCenter(Trim(url)), MatchCoordPattern(Trim(url))>>

\* C3: the six patterns are tried in the listed order and the first that
\* matches wins: when one of the five specific patterns matches (so also
\* whenever several patterns match) the parse succeeds with the coordinates of
\* the earliest-listed matching pattern, and coordinates are never returned
\* from any other pattern than the earliest-listed matching one.
C3_FirstPatternWins ==
    (pc = "done" /\ canvas) =>
        \A ms \in {PatternMatches(mapsUrl)} :
        \A hits \in {{k \in 1..6 : ms[k].found}} :
            /\ (hits # {} /\ (MinOf(hits) <= 5 \/ Cardinality(hits) >= 2))
                 => /\ parseResult.success
                    /\ parseResult.latitude = parseFloat(ms[MinOf(hits)].lat)
                    /\ parseResult.longitude = parseFloat(ms[MinOf(hits)].lng)
            /\ parseResult.success
                 => /\ hits # {}
                    /\ parseResult.latitude = parseFloat(ms[MinOf(hits)].lat)
                    /\ parseResult.longitude = parseFloat(ms[MinOf(hits)].lng)

\* C3 witness: a URL matched by ?q= and by ?ll= with different latitudes,
\* parsed to the ?q= coordinates.
C3_Witness ==
    /\ pc = "done" /\ canvas
    /\ parseResult.success
    /\ \E ms \in {PatternMatches(mapsUrl)} :
         /\ ms[1].found /\ ms[4].found
         /\ ms[1].lat # ms[4].lat
         /\ parseResult.latitude = parseFloat(ms[1].lat)

\* C4: every shortened map link (goo.gl/maps or maps.app.goo.gl) is rejected
\* with the short-URL failure and never yields coordinates.
C4_ShortUrlRejected ==
    (pc = "done" /\ canvas /\ IsShortUrl(Trim(mapsUrl))) =>
        /\ ~parseResult.success
        /\ parseResult.error = ShortUrlError
        /\ ~locationResult.success

\* |x| <= n for a parsed number x.
WithinDegrees(x, n) == ~x.nan /\ (x.int < n \/ (x.int = n /\ x.frac = <<>>))

\* The text of the latitude and of the longitude in a geo URI geo:<lat>,<lon>.
GeoUriLatitude(uri) ==
    SubSeq(uri, 5, MinOf({i \in 1..Len(uri) : uri[i] = ","}) - 1)
GeoUriLongitude(uri) ==
    SubSeq(uri, MinOf({i \in 1..Len(uri) : uri[i] = ","}) + 1, Len(uri))

\* C5: a geo URI is produced only for -90 <= lat <= 90 and -180 <= lon <= 180:
\* coordinates parsed from the URL that lie outside fail validation, and
\* generateLocationQR returns a failure without a geo URI.
C5_GeoUriInRange ==
    pc = "done" =>
        /\ locationResult.success
             => /\ parseResult.success
                /\ WithinDegrees(parseResult.latitude, 90)
                /\ WithinDegrees(parseResult.longitude, 180)
                /\ StartsWith(locationResult.geoUri, <<"g", "e", "o", ":">>)
                /\ WithinDegrees(parseFloat(GeoUriLatitude(locationResult.geoUri)), 90)
                /\ WithinDegrees(parseFloat(GeoUriLongitude(locationResult.geoUri)), 180)
        /\ (canvas /\ parseResult.success
              /\ ~(WithinDegrees(parseResult.latitude, 90)
                   /\ WithinDegrees(parseResult.longitude, 180)))
             => (~locationResult.success /\ locationResult.geoUri = <<>>)
        /\ ~locationResult.success => locationResult.geoUri = <<>>

\* C5 witness: a longitude above 180 was parsed from the URL and the
\* generation failed.
C5_Witness ==
    /\ pc = "done" /\ canvas
    /\ parseResult.success
    /\ WithinDegrees(parseResult.latitude, 90)
    /\ ~WithinDegrees(parseResult.longitude, 180)
    /\ ~locationResult.success

\* The IBAN with its digit at position p replaced by the digit d.
WithDigit(iban, p, d) == [iban EXCEPT ![p] = d]

\* C6: validateIBANChecksum accepts DE89370400440532013000, and replacing any
\* single digit of an accepted IBAN by a different digit gives a string it
\* rejects.
C6_SingleDigitDetected ==
    (pc = "done" /\ ibanResult.error # "Invalid IBAN format") =>
        /\ (ibanResult.cleanIban = DE89 => ibanResult.error = "")
        /\ (ibanResult.error = ""
              => \A p \in 1..Len(ibanResult.cleanIban) :
                 \A d \in Digit :
                   (ibanResult.cleanIban[p] \in Digit /\ d # ibanResult.cleanIban[p])
                     => ~validateIBANChecksum(WithDigit(ibanResult.cleanIban, p, d)))

\* C6 witness: DE89370400440532013000 was validated and accepted.
C6_Witness ==
    pc = "done" /\ ibanResult.cleanIban = DE89 /\ ibanResult.error = ""

\* 10^k modulo 97.
RECURSIVE Pow10Mod97(_)
Pow10Mod97(k) == IF k = 0 THEN 1 ELSE (10 * Pow10Mod97(k - 1)) % 97

\* The value and the number of decimal digits a character contributes to the
\* whole number: a digit is itself, a letter is charCode - 55 (A=10 ... Z=35).
CharValue(c) == IF c \in Digit THEN DigitVal(c) ELSE charCodeAt(c) - 55
CharWidth(c) == IF c \in Digit THEN 1 ELSE 2

\* The number of decimal digits written by the characters after position i.
RECURSIVE DigitsAfter(_, _)
DigitsAfter(s, i) == IF i >= Len(s) THEN 0 ELSE CharWidth(s[i + 1]) + DigitsAfter(s, i + 1)

\* The whole number written by s, modulo 97, from its positional value
\* (the sum over the characters of value * 10^(digits after it)).
RECURSIVE PositionalSum(_, _)
PositionalSum(s, i) ==
    IF i = 0 THEN 0
    ELSE PositionalSum(s, i - 1) + CharValue(s[i]) * Pow10Mod97(DigitsAfter(s, i))

WholeNumberMod97(iban) ==
    PositionalSum(SubSeq(iban, 5, Len(iban)) \o SubSeq(iban, 1, 4), Len(iban)) % 97

\* C7: validateIBANChecksum returns true exactly when the number formed by
\* moving the first 4 characters to the end and replacing each letter by
\* charCode - 55 leaves remainder 1 modulo 97; the running remainder equals the
\* remainder of that whole number for every IBAN-shaped input.
C7_Mod97 ==
    (pc = "done" /\ ibanResult.error # "Invalid IBAN format") =>
        /\ ibanResult.remainder = WholeNumberMod97(ibanResult.cleanIban)
        /\ (ibanResult.error = "") = (WholeNumberMod97(ibanResult.cleanIban) = 1)

\* C7 witness: an accepted IBAN with letters in its bank code, typed with a
\* lower-case country.
C7_Witness ==
    /\ pc = "done" /\ ibanResult.error = ""
    /\ ibanResult.cleanIban # ibanCode
    /\ ibanResult.cleanIban[5] \in UpperLetter

\* A field of a decoded payment, null when the decoder did not report it.
Field(info, f) == IF f \in DOMAIN info THEN info[f] ELSE null

\* The amount that was encoded: null when the payload holds none.
EncodedAmount(amt) == IF AmountGiven(amt) THEN amt ELSE null

\* C8: payment decode is the inverse of encode for each kind: for every
\* payment instruction accepted by validation, decoding the encoded string
\* reports the same kind and the same address/id, name and amount that were
\* encoded, and reports the amount as absent when no amount was encoded.
C8_DecodeInvertsEncode ==
    (pc = "done" /\ paymentInfo.type # "none") =>
        /\ paymentInfo.type = paymentData.paymentType
        /\ CASE paymentData.paymentType = "paypal" ->
                  /\ Field(paymentInfo, "username") = paymentData.paypalUsername
                  /\ Field(paymentInfo, "amount") = EncodedAmount(paymentData.paypalAmount)
             [] paymentData.paymentType = "bitcoin" ->
                  /\ Field(paymentInfo, "address") = paymentData.cryptoAddress
                  /\ Field(paymentInfo, "amount") = EncodedAmount(paymentData.cryptoAmount)
             [] paymentData.paymentType = "ethereum" ->
                  /\ Field(paymentInfo, "address") = paymentData.cryptoAddress
                  /\ Field(paymentInfo, "value") = EncodedAmount(paymentData.cryptoAmount)
             [] paymentData.paymentType = "upi" ->
                  /\ Field(paymentInfo, "payeeAddress") = paymentData.upiId
                  /\ Field(paymentInfo, "payeeName") = paymentData.upiName
                  /\ Field(paymentInfo, "amount") = EncodedAmount(paymentData.upiAmount)
             [] paymentData.paymentType = "iban" ->
                  /\ Field(paymentInfo, "iban") = paymentData.ibanCode
                  /\ Field(paymentInfo, "beneficiary") = paymentData.ibanName
                  /\ Field(paymentInfo, "amount") = EncodedAmount(paymentData.ibanAmount)
             [] paymentData.paymentType = "url" ->
                  Field(paymentInfo, "url") = paymentData.paymentUrl

\* An amount is given: the amount field is not blank.
GivenAmount(amt) == Trim(amt) # <<>>

\* The bracketed amount part of a payload.
AmountPart(amt, key, currency) == IF GivenAmount(amt) THEN key \o amt \o currency ELSE <<>>

EndsWith(s, p) == Len(s) >= Len(p) /\ SubSeq(s, Len(s) - Len(p) + 1, Len(s)) = p

\* t is a URL encoding of name: only unreserved characters and percent
\* codes, which decode to name.
IsUrlEncoded(t, name) == AllIn(t, UnreservedChars \cup {"%"}) /\ FormDecode(t) = name

\* s is pre, then a URL encoding of name, then post.
Framed(s, pre, name, post) ==
    /\ Len(s) >= Len(pre) + Len(post)
    /\ StartsWith(s, pre)
    /\ EndsWith(s, post)
    /\ IsUrlEncoded(SubSeq(s, Len(pre) + 1, Len(s) - Len(post)), name)

\* The part of the grammar that holds whether or not the IBAN name is URL-encoded.
GrammarExceptIban(d, s) ==
    /\ d.paymentType = "paypal" =>
         s = <<"h", "t", "t", "p", "s", ":", "/", "/", "p", "a", "y", "p", "a", "l", ".", "m",
             "e", "/">> \o d.paypalUsername
             \o AmountPart(d.paypalAmount, <<"/">>, <<>>)
    /\ d.paymentType = "bitcoin" =>
         s = <<"b", "i", "t", "c", "o", "i", "n", ":">> \o d.cryptoAddress
             \o AmountPart(d.cryptoAmount, <<"?", "a", "m", "o", "u", "n", "t", "=">>, <<>>)
    /\ d.paymentType = "ethereum" =>
         s = <<"e", "t", "h", "e", "r", "e", "u", "m", ":">> \o d.cryptoAddress
             \o AmountPart(d.cryptoAmount, <<"?", "v", "a", "l", "u", "e", "=">>, <<>>)
    /\ d.paymentType = "upi" =>
         Framed(s, <<"u", "p", "i", ":", "/", "/", "p", "a", "y", "?", "p", "a",
             "=">> \o d.upiId \o <<"&", "p", "n", "=">>, d.upiName,
                AmountPart(d.upiAmount, <<"&", "a", "m", "=">>, <<"&", "c", "u", "=", "I", "N",
                    "R">>))
    /\ (d.paymentType = "upi" /\ d.upiId = FooAtBank /\ d.upiName = JaneDoe
          /\ d.upiAmount = Amount100) =>
         s = <<"u", "p", "i", ":", "/", "/", "p", "a", "y", "?", "p", "a", "=", "f", "o", "o",
             "@", "b", "a", "n", "k", "&", "p", "n", "=", "J", "a", "n", "e", "%", "2", "0",
             "D", "o", "e", "&", "a", "m", "=", "1", "0", "0", "&", "c", "u", "=", "I", "N", "R">>

\* C9 (as amended): payment encode emits, per kind,
\* https://paypal.me/<username>[/<amount>], bitcoin:<address>[?amount=<amt>],
\* ethereum:<address>[?value=<amt>],
\* upi://pay?pa=<id>&pn=<url-encoded name>[&am=<amt>&cu=INR] and
\* iban:<code>?beneficiary=<url-encoded name>[&amount=<amt>&currency=EUR], the
\* bracketed part present exactly when an amount is given; foo@bank, Jane Doe,
\* 100 gives upi://pay?pa=foo@bank&pn=Jane%20Doe&am=100&cu=INR.
C9_EncodeGrammar ==
    pc = "submitted" =>
        /\ GrammarExceptIban(paymentData, currentQRCode.paymentString)
        /\ paymentData.paymentType = "iban" =>
             Framed(currentQRCode.paymentString,
                    <<"i", "b", "a", "n", ":">> \o paymentData.ibanCode \o <<"?", "b", "e", "n",
                        "e", "f", "i", "c", "i", "a", "r", "y", "=">>,
                    paymentData.ibanName,
                    AmountPart(paymentData.ibanAmount, <<"&", "a", "m", "o", "u", "n", "t",
                        "=">>, <<"&", "c", "u", "r", "r", "e", "n", "c", "y", "=", "E", "U", "R">>))

\* C9 witness: an IBAN payload was generated for a name with a space and an
\* amount.
C9_Witness ==
    /\ pc = "submitted"
    /\ paymentData.paymentType = "iban"
    /\ \E i \in 1..Len(paymentData.ibanName) : paymentData.ibanName[i] = " "
    /\ GivenAmount(paymentData.ibanAmount)

\* C9 as stated: the same grammar, with the IBAN beneficiary being the name
\* itself.
C9_AsStated ==
    pc = "submitted" =>
        /\ GrammarExceptIban(paymentData, currentQRCode.paymentString)
        /\ paymentData.paymentType = "iban" =>
             currentQRCode.paymentString =
                <<"i", "b", "a", "n", ":">> \o paymentData.ibanCode \o <<"?", "b", "e", "n",
                    "e", "f", "i", "c", "i", "a", "r", "y", "=">>
                \o paymentData.ibanName
                \o AmountPart(paymentData.ibanAmount, <<"&", "a", "m", "o", "u", "n", "t",
                    "=">>, <<"&", "c", "u", "r", "r", "e", "n", "c", "y", "=", "E", "U", "R">>)

\* C10: phone normalization is idempotent: for every raw phone string,
\* normalizing the already-normalized output returns it unchanged; and
\* 5551234567 normalizes to +15551234567.
C10_Idempotent ==
    /\ pc = "done" => reformatted = cleanPhone
    /\ (pc # "ready" /\ phone = FiveFive) => cleanPhone = <<"+", "1", "5", "5", "5", "1", "2",
        "3", "4", "5", "6", "7">>

\* C10 witness: 5551234567 was normalized to +15551234567 and normalized again.
C10_Witness ==
    pc = "done" /\ phone = FiveFive /\ cleanPhone = <<"+", "1">> \o FiveFive

\* An optional leading + followed by 7 to 15 digits and nothing else.
IsDialable(n) ==
    /\ AllIn(whatsappPhone(n), Digit)
    /\ Len(whatsappPhone(n)) >= 7 /\ Len(whatsappPhone(n)) <= 15

\* The number part of a payload: after SMSTO: up to the next colon, after
\* tel: to the end, after https://wa.me/ up to the question mark.
NumberPart(payload) ==
    IF StartsWith(payload, <<"S", "M", "S", "T", "O", ":">>)
    THEN SubSeq(payload, 7, RunEndNot(payload, 7, {":"}))
    ELSE IF StartsWith(payload, <<"t", "e", "l", ":">>) THEN SubSeq(payload, 5, Len(payload))
    ELSE SubSeq(payload, 15, RunEndNot(payload, 15, {"?"}))

\* C11: every phone number accepted by Messaging validation normalizes to an
\* optional leading + followed by 7 to 15 digits and nothing else, so no
\* SMSTO:, wa.me or tel: payload is produced whose number part has fewer than
\* 7 digits, more than 15 digits, or any non-digit after the leading +.
C11_DialableNumber ==
    /\ (pc # "ready" /\ validateSMSData(smsData) = "")
          => IsDialable(formatPhoneNumber(smsData.phone))
    /\ (pc # "ready" /\ smsResult.success)
          => /\ \E prefix \in {<<"S", "M", "S", "T", "O", ":">>, <<"h", "t", "t", "p", "s", ":",
              "/", "/", "w", "a", ".", "m", "e", "/">>} :
                  StartsWith(smsResult.payload, prefix)
             /\ IsDialable(NumberPart(smsResult.payload))
    /\ (pc = "done" /\ phoneResult.success)
          => /\ \E prefix \in {<<"t", "e", "l", ":">>, <<"h", "t", "t", "p", "s", ":", "/", "/",
              "w", "a", ".", "m", "e", "/">>} :
                  StartsWith(phoneResult.payload, prefix)
             /\ IsDialable(NumberPart(phoneResult.payload))

\* C11 witness: a punctuated 15-digit number was accepted and a tel: payload
\* and an SMSTO: payload were produced for it.
C11_Witness ==
    /\ pc = "done"
    /\ smsResult.success /\ phoneResult.success
    /\ Len(KeepDigitsAndPlus(smsData.phone)) = 15
    /\ smsData.phone # KeepDigitsAndPlus(smsData.phone)
    /\ StartsWith(smsResult.payload, <<"S", "M", "S", "T", "O", ":">>)
    /\ StartsWith(phoneResult.payload, <<"t", "e", "l", ":">>)
\* A date as a date field gives it: YYYY-MM-DD.
IsIsoDate(s) ==
    /\ Len(s) = 10
    /\ \A i \in {1, 2, 3, 4, 6, 7, 9, 10} : s[i] \in Digit
    /\ s[5] = "-" /\ s[8] = "-"

\* The eight digits of an ISO date, and the number they spell.
DateDigits(s) == SubSeq(s, 1, 4) \o SubSeq(s, 6, 7) \o SubSeq(s, 9, 10)
CalendarDay(s) == DigitsToInt(DateDigits(s))

\* The minute of the day of a time HH:MM.
MinuteOfDay(s) == DigitsToInt(SubSeq(s, 1, 2)) * 60 + DigitsToInt(SubSeq(s, 4, 5))

\* The faults the event validation names.
EndDateBeforeStart(data) ==
    /\ IsIsoDate(data.startDate) /\ IsIsoDate(data.endDate)
    /\ CalendarDay(data.endDate) < CalendarDay(data.startDate)

EventFault(data) ==
    \/ data.eventTitle = <<>>
    \/ data.startDate = <<>>
    \/ data.endDate = <<>>
    \/ EndDateBeforeStart(data)
    \/ /\ data.startDate = data.endDate /\ ~data.allDay
       /\ data.startTime # <<>> /\ data.endTime # <<>>
       /\ MinuteOfDay(data.endTime) <= MinuteOfDay(data.startTime)

\* C12: event validation fails closed: a missing title, a missing start or
\* end date, an end date before the start date, or (same day, timed) an end
\* time not later than the start time gives a failure without payload from
\* generateEventQR and isValid = false from validateEventData; start
\* 2025-06-01 with end 2025-05-31 is rejected whatever the title and times.
C12_FailsClosed ==
    /\ (pc = "generated" /\ EventFault(eventData))
          => /\ ~eventResult.success
             /\ eventResult.error # ""
             /\ eventResult.icalString = <<>>
    /\ (pc # "ready" /\ EventFault(eventData)) => ~eventValidation.isValid
    /\ (pc = "generated" /\ eventData.startDate = <<"2", "0", "2", "5", "-", "0", "6", "-", "0",
        "1">>
           /\ eventData.endDate = <<"2", "0", "2", "5", "-", "0", "5", "-", "3", "1">>)
          => ~eventResult.success /\ ~eventValidation.isValid

C12_Witness ==
    /\ pc = "generated"
    /\ eventCanvas
    /\ eventData.eventTitle # <<>>
    /\ eventData.startDate = <<"2", "0", "2", "5", "-", "0", "6", "-", "0", "1">>
    /\ eventData.endDate = <<"2", "0", "2", "5", "-", "0", "5", "-", "3", "1">>
    /\ eventData.startTime = <<"0", "9", ":", "0", "0">>
    /\ eventData.endTime = <<"1", "0", ":", "1", "5">>
    /\ eventResult = [success |-> FALSE, error |-> "End date cannot be before start date",
                      icalString |-> <<>>]

\* The escaping as the grammar states it, character by character.
RECURSIVE ICalCharByChar(_)
ICalCharByChar(text) ==
    IF text = <<>> THEN <<>>
    ELSE (CASE Head(text) \in {"\\", ";", ","} -> <<"\\", Head(text)>>
            [] Head(text) = "\n" -> <<"\\", "n">>
            [] Head(text) = "\r" -> <<>>
            [] OTHER -> <<Head(text)>>)
         \o ICalCharByChar(Tail(text))

\* C13: the escaped text holds no raw line feed or carriage return, every
\* newline of the input appears as backslash-n, every backslash, semicolon
\* and comma of the input appears behind exactly one escaping backslash,
\* carriage returns are dropped and every other character is copied.
C13_EscapeICal ==
    pc = "done" =>
        /\ icalEscaped = ICalCharByChar(icalText)
        /\ \A i \in 1..Len(icalEscaped) : icalEscaped[i] \notin {"\n", "\r"}

C13_Witness ==
    /\ pc = "done"
    /\ {"\\", "n", "\n", "\r"} \subseteq {icalText[i] : i \in 1..Len(icalText)}
    /\ Includes(icalEscaped, <<"\\", "\\", "n", "\\", "n">>)

\* The UID of a payload: what its UID: line holds.
UidOf(ical) ==
    LET at == MinOf({i \in 1..Len(ical) : OccursAt(ical, <<"\n">> \o <<"U", "I", "D", ":">>, i)})
    IN  SubSeq(ical, at + 5, RunEndNot(ical, at + 5, {"\n"}))

\* C14: any two distinct calls of the event encode yield different UIDs,
\* whatever the time elapsed between them.
C14_UidsDiffer ==
    \A i, j \in 1..Len(issued) :
        (i < j /\ issued[i].success /\ issued[j].success)
            => UidOf(issued[i].icalString) # UidOf(issued[j].icalString)

\* C15: for an all-day event DTSTART and DTEND are VALUE=DATE values carrying
\* exactly the year, month and day of the given start and end dates, in
\* every local time zone.
C15_AllDayDates ==
    (/\ pc = "generated" /\ eventResult.success /\ eventData.allDay
     /\ IsIsoDate(eventData.startDate) /\ IsIsoDate(eventData.endDate))
        => /\ Includes(eventResult.icalString,
                       <<"\n">> \o <<"D", "T", "S", "T", "A", "R", "T", ";", "V", "A", "L", "U",
                           "E", "=", "D", "A", "T", "E", ":">>
                       \o DateDigits(eventData.startDate) \o <<"\n">>)
           /\ Includes(eventResult.icalString,
                       <<"\n">> \o <<"D", "T", "E", "N", "D", ";", "V", "A", "L", "U", "E", "=",
                           "D", "A", "T", "E", ":">>
                       \o DateDigits(eventData.endDate) \o <<"\n">>)
\* A network name of 1 to 32 characters without a line break.
SsidWellFormed(ssid) ==
    /\ Len(ssid) >= 1 /\ Len(ssid) <= 32
    /\ \A i \in 1..Len(ssid) : ssid[i] \notin {"\n", "\r"}

AsciiChars ==
    Letter \cup Digit \cup {" ", "!", "\"", "#", "$", "%", "&", "'", "(", ")", "*", "+", ",",
                            "-", ".", "/", ":", ";", "<", "=", ">", "?", "@", "[", "\\", "]",
                            "^", "_", "{", "|", "}", "~"}

\* A password the rules allow for a kind of security.
PasswordWellFormed(password, security) ==
    \/ security = "nopass"
    \/ /\ security \in {"WPA", "WPA3"}
       /\ Len(password) >= 8 /\ Len(password) <= 63
    \/ /\ security = "WEP"
       /\ \/ Len(password) \in {5, 13} /\ AllIn(password, AsciiChars)
          \/ Len(password) \in {10, 26} /\ IsHexString(password)

\* C17: WiFi validation requires a password unless security is nopass,
\* accepts a WPA or WPA3 password only when it has 8 to 63 characters (7
\* rejected, 8 accepted), and a WEP password only when it is 5 or 13 ASCII
\* characters or 10 or 26 hex characters.
C17_PasswordRule ==
    pc = "done" =>
        /\ wifiForm.isValid
              => PasswordWellFormed(wifiFields.password, wifiFields.security)
        /\ wifiResult.success
              => PasswordWellFormed(wifiData.password, wifiData.security)
        /\ (wifiFields.security \in {"WPA", "WPA3"} /\ Len(wifiFields.password) = 7)
              => ~wifiForm.isValid
        /\ (wifiFields.security \in {"WPA", "WPA3"} /\ wifiFields.ssid = Home
               /\ Len(wifiFields.password) = 8)
              => wifiForm.isValid /\ validateWiFiData(wifiData) = ""
\* The basic shape local@domain.tld: one "@", no white space, a local part,
\* and a domain that ends in a dot and a top-level name.
HasEmailShape(s) ==
    \E at \in 2..Len(s) :
        /\ s[at] = "@"
        /\ \A i \in 1..Len(s) : s[i] \notin WhiteSpace /\ (s[i] = "@" => i = at)
        /\ \E dot \in (at + 2)..(Len(s) - 1) : s[dot] = "."

LocalPart(s) == SubSeq(s, 1, (CHOOSE i \in 1..Len(s) : s[i] = "@") - 1)
DomainPart(s) == SubSeq(s, (CHOOSE i \in 1..Len(s) : s[i] = "@") + 1, Len(s))

Normalized(s) ==
    /\ Trim(s) = s
    /\ \A i \in 1..Len(s) : s[i] # "\r"
    /\ ~Includes(s, <<"\n", "\n", "\n">>)

\* C19: whatever the input, the output of the text normalizer (formatText of
\* the form validator, formatTextForQR of the generator) is trimmed, has only
\* line feeds as line endings, and never holds three or more consecutive
\* line breaks.
C19_Normalized ==
    /\ (pc = "formatted" => Normalized(textFormatted))
    /\ (pc = "formattedForQR" => Normalized(textForQR))

\* C20: for every accepted text, the string handed to the QR renderer is
\* exactly the normalizer's output (validateAndFormat's formattedText) for
\* the submitted text.
C20_RendererGetsNormalized ==
    (pc = "done" /\ toDataURL # <<>>)
        => toDataURL = <<validateAndFormat(textInput).formattedText>>

\* C21: no validate or decode call raises: whatever the argument (missing,
\* empty or wrong-typed fields included), the call returns a success or a
\* failure value and never ends with an exception.
C21_NeverThrows ==
    pc = "called" => (~outcome.threw /\ outcome.kind \in {"success", "failure"})

\* The lines of an iCalendar payload that carry the time of the call.
ClockLine(line) ==
    \/ StartsWith(line, <<"U", "I", "D", ":">>)
    \/ StartsWith(line, <<"D", "T", "S", "T", "A", "M", "P", ":">>)
    \/ StartsWith(line, <<"C", "R", "E", "A", "T", "E", "D", ":">>)
    \/ StartsWith(line, <<"L", "A", "S", "T", "-", "M", "O", "D", "I", "F", "I", "E", "D", ":">>)

NotClockLine(line) == ~ClockLine(line)

WithoutClockLines(ical) == SelectSeq(Split(ical, "\n"), NotClockLine)
OnlyClockLines(ical) == SelectSeq(Split(ical, "\n"), ClockLine)

SixDecimals(text) ==
    LET dots == {i \in 1..Len(text) : text[i] = "."}
        whole == IF dots = {} THEN text ELSE SubSeq(text, 1, MinOf(dots) - 1)
        fraction == IF dots = {} THEN <<>> ELSE SubSeq(text, MinOf(dots) + 1, Len(text))
    IN  whole \o <<".">> \o fraction \o [i \in 1..(6 - Len(fraction)) |-> "0"]

\* The latitude and the longitude text of a "lat,lng" pair.
PairLatitude(pair) == SubSeq(pair, 1, MinOf({i \in 1..Len(pair) : pair[i] = ","}) - 1)
PairLongitude(pair) ==
    SubSeq(pair, MinOf({i \in 1..Len(pair) : pair[i] = ","}) + 1, Len(pair))

\* The URL is host/@pair,15z..., and holds no q= parameter (which the parser
\* looks for first).
AtShaped(url, pair) ==
    /\ \E host \in Hosts : StartsWith(url, host \o <<"/", "@">> \o pair \o <<",",
        "1", "5", "z">>)
    /\ ~Includes(url, <<"q", "=">>)

ExampleMapsUrl == <<"h", "t", "t", "p", "s", ":", "/", "/", "w", "w", "w", ".", "g", "o", "o",
    "g", "l", "e", ".", "c", "o", "m", "/", "m", "a", "p", "s", "/", "@", "4",
    "0", ".", "7", "1", "2", "8", ",", "-", "7", "4", ".", "0", "0", "6", "0", ",", "1", "5", "z">>

\* C23: for a map URL of the @lat,lng,zoom shape the parser returns the
\* latitude and longitude written after the @, and the encode emits
\* geo:<lat>,<lon> with both written with exactly six decimal places;
\* https://www.google.com/maps/%AT%40.7128,-74.0060,15z gives
\* geo:40.712800,-74.006000.
C23_AtShapeToGeoUri ==
    (pc = "done" /\ canvas) =>
        /\ \A pair \in CoordinateLiterals :
             AtShaped(mapsUrl, pair) =>
               /\ parseResult.success
               /\ parseResult.latitude = parseFloat(PairLatitude(pair))
               /\ parseResult.longitude = parseFloat(PairLongitude(pair))
               /\ locationResult.success =>
                    locationResult.geoUri =
                        <<"g", "e", "o", ":">> \o SixDecimals(PairLatitude(pair)) \o <<",">>
                          \o SixDecimals(PairLongitude(pair))
        /\ (mapsUrl = ExampleMapsUrl /\ locationResult.success)
             => locationResult.geoUri = <<"g", "e", "o", ":", "4", "0", ".", "7", "1", "2", "8",
                 "0", "0", ",", "-", "7", "4", ".", "0", "0", "6", "0", "0", "0">>

\* C23 witness: the example URL was parsed and encoded.
C23_Witness ==
    /\ pc = "done" /\ canvas
    /\ mapsUrl = ExampleMapsUrl
    /\ locationResult.success
    /\ locationResult.geoUri # <<>>

\* The lines of a payload that start with the given property name.
LinesOf(payload, name) ==
    SelectSeq(Split(payload, "\n"), LAMBDA line : StartsWith(line, name))

\* The payload holds the line name+value when present holds, and no line
\* starting with name otherwise.
LineExactlyWhen(payload, name, present, value) ==
    LinesOf(payload, name) = IF present THEN <<name \o value>> ELSE <<>>

\* What C24 says of the payload built for the contact data.
VCardLines(data, payload) ==
    LET named == data.firstName # <<>> \/ data.lastName # <<>>
        located == \E f \in {"street", "city", "state", "zip", "country"} : data[f] # <<>>
    IN  /\ LineExactlyWhen(payload, <<"N", ":">>, named,
                           data.lastName \o <<";">> \o data.firstName \o <<";", ";", ";">>)
        /\ Len(LinesOf(payload, <<"F", "N", ":">>)) = IF named THEN 1 ELSE 0
        /\ LineExactlyWhen(payload, <<"O", "R", "G", ":">>, data.company # <<>>, data.company)
        /\ LineExactlyWhen(payload, <<"T", "I", "T", "L", "E",
            ":">>, data.jobTitle # <<>>, data.jobTitle)
        /\ LineExactlyWhen(payload, <<"T", "E", "L", ":">>, data.phone # <<>>, data.phone)
        /\ LineExactlyWhen(payload, <<"E", "M", "A", "I", "L", ":">>, data.email # <<>>, data.email)
        /\ LineExactlyWhen(payload, <<"U", "R", "L", ":">>, data.website # <<>>, data.website)
        /\ LineExactlyWhen(payload, <<"A", "D", "R", ":">>, located,
                           <<";", ";">> \o data.street \o <<";">> \o data.city \o <<";">>
                             \o data.state \o <<";">> \o data.zip \o <<";">> \o data.country)

Answered(url, code) ==
    \E r \in Requests :
        /\ response[r].status = 200 /\ response[r].shortCode = code
        /\ response[r].originalUrl = url /\ request[r].method = "POST"

\* C25: once the shorten endpoint has answered a request for URL U with code
\* C, every visit of the short URL for C is redirected to U (the mapping of C
\* to U being stored and not expired).
C25_VisitRedirects ==
    [][\A u \in RequestUrls, c \in ShortCodes :
          (/\ Answered(u, c)
           /\ kv[codeKey(c)] = u /\ kv'[codeKey(c)] = u
           /\ visit' # visit /\ visit'.shortCode = c)
             => (visit'.status = 302 /\ visit'.location = u)]_vars

\* C26: under every interleaving of shorten requests no code is handed out
\* for two different URLs: when a response says that code C stands for URL U,
\* the store maps C to U and not to another URL.
C26_OneUrlPerCode ==
    \A r \in Requests :
        (response[r].status = 200 /\ request[r].method = "POST")
            => /\ kv[codeKey(response[r].shortCode)] = response[r].originalUrl
               /\ \A q \in Requests :
                    (response[q].status = 200 /\ request[q].method = "POST"
                       /\ response[q].shortCode = response[r].shortCode)
                        => response[q].originalUrl = response[r].originalUrl

\* C27: under every interleaving of shorten requests all successful
\* responses for one URL carry the same code.
C27_OneCodePerUrl ==
    \A r, q \in Requests :
        (/\ response[r].status = 200 /\ request[r].method = "POST"
         /\ response[q].status = 200 /\ request[q].method = "POST"
         /\ response[r].originalUrl = response[q].originalUrl)
            => response[r].shortCode = response[q].shortCode

\* C28: every payload generatePaymentString builds from form data that
\* validatePaymentData accepts is accepted by validatePaymentString for the
\* same payment type.
C28_CodecAcceptsPayload ==
    currentQRCode # NoQRCode =>
        validatePaymentString(currentQRCode.paymentString,
                              currentPaymentData.paymentType).isValid

\* The payload the page's generator builds for the details (for the Event
\* page apart from the lines that carry the time of the call).
ImageOfDetails(p, image, details) ==
    IF p = "wifi" THEN image = toPng(formatWiFiString(details))
    ELSE \E now \in PageClocks :
           /\ generateICalString(details, now, 0) # RangeError
           /\ image.png # null
           /\ WithoutClockLines(image.png)
                = WithoutClockLines(generateICalString(details, now, 0))

\* C29: on the WiFi and Event pages, whenever currentData.qrDataURL is set
\* (and no submission is under way) it is the image generated from the
\* current currentData.wifiData / eventData, and a PDF download pairs an
\* image with the details it was generated from.
C29_ImageOfCurrentData ==
    (page \in {"wifi", "event"} /\ ~awaited.pending) =>
        /\ currentData.qrDataURL # noImage =>
             /\ currentData.details # NoDetails(page)
             /\ ImageOfDetails(page, currentData.qrDataURL, currentData.details)
        /\ pdf.downloaded => ImageOfDetails(page, pdf.qrDataURL, pdf.details)

\* A submission has left the loading state.
LeftLoading ==
    /\ ~sections.loading
    /\ ~sections.disabled
    /\ sections.results # sections.error

\* C30: every form submission that shows the loading state eventually leaves
\* it: the loading state is hidden, the generate button enabled and exactly
\* one of the results section and the error section shown.
C30_LoadingEnds == sections.loading ~> LeftLoading

\* A generation that failed after the loading state was shown: the details
\* of the submission are kept, the error is shown, the button is enabled.
C30_Witness ==
    /\ currentData.details # NoDetails(page)
    /\ submits > 0
    /\ sections.error /\ ~sections.results /\ ~sections.loading /\ ~sections.disabled

====
